---- MODULE Spec2Model ----
(***************************************************************************)
(* Production-slot allocation of the admin console                         *)
(* (src/src/app/admin/orders/actions.ts).  The relational store is the     *)
(* state: the orders, production_slots and order_slots tables, plus the    *)
(* wall-clock day.  Every server action is one atomic step in Spec; the    *)
(* specification SpecConc splits assignOrderToSlot into its store calls so *)
(* that two admin requests can interleave.                                 *)
(***************************************************************************)
EXTENDS Integers, Sequences, FiniteSets, TLC

\* ---------------------------------------------------------------- bounds
MaxTotalKg == 2
MaxDay == 10
MaxSlots == 2
MaxRows == 2
MaxOrders == 2
MaxRequests == 2
MaxBlocks == 3
MaxSeq == 5
MaxPlaced == 5
MaxQuoteBlocks == 1
MaxPackages == 2
MaxCart == 2
MaxClock == 4
MaxPerWindow == 2

\* ------------------------------------------------------------- universes
None == "none"
NoDate == <<>>
NoIndex == 0
NoNumber == -1

OrderIds == {"A", "B", "C", "D"}
SlotIds == {"s1", "s2", "s3", "s4"}
RowIds == {"r1", "r2", "r3", "r4"}
BlockIds == {"b1", "b2", "b3", "b4", "b5"}
Procs == {"p1", "p2"}
FirstDay == MaxDay - 1
Days == FirstDay..MaxDay

VARIABLES today, orders, production_slots, order_slots, last, pc, req, started,
          production_blocks, settings, calendar, refund, provider_refunds,
          quote_blocks, checkout_page, order_seq, placing, shown, priced,
          checkout_cart, buckets, limits

vars == <<today, orders, production_slots, order_slots, last, pc, req, started,
          production_blocks, settings, calendar, refund, provider_refunds,
          quote_blocks, checkout_page, order_seq, placing, shown, priced,
          checkout_cart, buckets, limits>>
tables == <<orders, production_slots, order_slots>>
inflight == <<pc, req, started>>
schedule == <<today, tables, inflight>>
blocksView == <<production_blocks, settings, calendar>>
refunds == <<refund, provider_refunds>>
creation == <<quote_blocks, checkout_page, order_seq, placing>>
front == <<checkout_cart, buckets, limits>>
views == <<shown, priced, front>>
aux == <<blocksView, refunds, creation, views>>

\* ------------------------------------------------------- generic helpers
Extend(f, k, v) == [x \in DOMAIN f \cup {k} |-> IF x = k THEN v ELSE f[x]]

Remove(f, k) == [x \in DOMAIN f \ {k} |-> f[x]]

\* JavaScript string comparison a < b on sequences of digits.
RECURSIVE StrLess(_, _)
StrLess(a, b) ==
    IF b = <<>> THEN FALSE
    ELSE IF a = <<>> THEN TRUE
    ELSE IF Head(a) /= Head(b) THEN Head(a) < Head(b)
    ELSE StrLess(Tail(a), Tail(b))

\* Variant: the date key without zero padding.
DateKeyUnpadded(day) == IF day < 10 THEN <<day>> ELSE <<day \div 10, day % 10>>

\* A day number rendered as a zero-padded two-digit key.
DateKey(day) == <<day \div 10, day % 10>>

todayKey == DateKey(today)

DateKeys == {DateKey(d) : d \in Days}

\* Store-generated identifiers: some identifier not in use.
NewId(pool, used) == CHOOSE x \in pool \ used : TRUE

\* Rows of order_slots (given as a set of row ids) summed over kg_assigned.
RECURSIVE SumKg(_, _)
SumKg(rows, ids) ==
    IF ids = {} THEN 0
    ELSE LET r == CHOOSE x \in ids : TRUE
         IN rows[r].kg_assigned + SumKg(rows, ids \ {r})

\* A select without ORDER BY: any returned row may come first.
FirstOf(ids) == IF ids = {} THEN {None} ELSE ids

\* ------------------------------------------------------------ the record
\* of the last request and its outcome: what the caller gets back (the
\* redirect or the error thrown) and, for an accepted call, what it asked for.
Outcome(op, result, order_id, assignment_id, slot_id, slot_date, kg, resolved) ==
    IF result = "ok"
    THEN [op |-> op, result |-> result, order_id |-> order_id,
          assignment_id |-> assignment_id, slot_id |-> slot_id,
          slot_date |-> slot_date, kg_assigned |-> kg, resolved |-> resolved,
          prior_slot |-> None, prior_kg |-> 0]
    ELSE [op |-> op, result |-> result, order_id |-> order_id,
          assignment_id |-> None, slot_id |-> None,
          slot_date |-> slot_date, kg_assigned |-> 0, resolved |-> resolved,
          prior_slot |-> None, prior_kg |-> 0]

\* An accepted assignment also records where the order was assigned before.
Moved(outcome, rows, existingOrderAssignment) ==
    IF existingOrderAssignment = None THEN outcome
    ELSE [outcome EXCEPT !.prior_slot = rows[existingOrderAssignment].slot_id,
                         !.prior_kg = rows[existingOrderAssignment].kg_assigned]

NoOutcome == Outcome("none", "ok", None, None, None, NoDate, 0, None)

\* --------------------------------------------------------- the orders row
NoOrderNumber == [base |-> 0, suffix |-> ""]

\* An orders row of the given weight with every nullable column null.
Order(kg) ==
    [total_weight_kg |-> kg, status |-> "pending", order_number |-> NoOrderNumber,
     due_date |-> NoDate, total_price |-> NoNumber, payment_provider |-> None,
     payment_transaction_id |-> None, refunded_at |-> NoDate, customer_email |-> None,
     woo_order_id |-> None, category_id |-> None, packaging_option_id |-> None,
     quantity |-> NoNumber, design_type |-> None, paid_at |-> NoDate,
     woo_order_status |-> None]

\* The columns an update or insert sets, written over a row.
withPayload(row, payload) ==
    [row EXCEPT !.total_weight_kg = payload.total_weight_kg, !.status = payload.status]

\* ------------------------------------------------------------ upsertOrder
upsertOrderWeight(existing, order_weight_g, total_weight_kg_input) ==
    LET total_weight_kg ==
            IF order_weight_g /= NoNumber THEN order_weight_g \div 1000
            ELSE IF total_weight_kg_input /= NoNumber THEN total_weight_kg_input
            ELSE NoNumber
    IN IF total_weight_kg /= NoNumber THEN total_weight_kg
       ELSE IF existing /= {} THEN orders[CHOOSE x \in existing : TRUE].total_weight_kg
       ELSE NoNumber

upsertOrder(id, order_weight_g, total_weight_kg_input, status) ==
    LET existing == IF id /= None /\ id \in DOMAIN orders THEN {id} ELSE {}
        resolvedWeightKg == upsertOrderWeight(existing, order_weight_g, total_weight_kg_input)
        resolvedStatus ==
            IF status /= None THEN status
            ELSE IF existing /= {} THEN orders[id].status
            ELSE "pending"
        basePayload == [total_weight_kg |-> resolvedWeightKg, status |-> resolvedStatus]
        Done(result) == last' = Outcome("upsertOrder", result, id, None, None, NoDate, 0, None)
    IN
    /\ UNCHANGED <<today, production_slots, order_slots, inflight, aux>>
    /\ IF resolvedWeightKg <= 0
       THEN Done("weight_required") /\ UNCHANGED orders
       ELSE IF resolvedWeightKg > MaxTotalKg
       THEN Done("max_total_kg") /\ UNCHANGED orders
       ELSE IF id /= None
       THEN /\ orders' = IF existing /= {}
                        THEN [orders EXCEPT ![id] = withPayload(orders[id], basePayload)]
                        ELSE orders
            /\ Done("ok")
       ELSE /\ Cardinality(DOMAIN orders) < MaxOrders
            /\ orders' = Extend(orders, NewId(OrderIds, DOMAIN orders),
                                withPayload(Order(0), basePayload))
            /\ Done("ok")

\* ------------------------------------------------------------- upsertSlot
upsertSlot(id, slot_date, capacity_kg, status) ==
    LET payload(slot_index) ==
            [slot_date |-> slot_date, slot_index |-> slot_index,
             capacity_kg |-> capacity_kg,
             status |-> IF status = None THEN "open" ELSE status]
        Done(result) == last' = Outcome("upsertSlot", result, None, None, id, slot_date, 0, None)
    IN
    /\ UNCHANGED <<today, orders, order_slots, inflight, aux>>
    /\ IF slot_date = NoDate
       THEN Done("slot_date_required") /\ UNCHANGED production_slots
       ELSE IF capacity_kg <= 0
       THEN Done("capacity_invalid") /\ UNCHANGED production_slots
       ELSE IF id /= None
       THEN /\ production_slots' =
                  IF id \in DOMAIN production_slots
                  THEN [production_slots EXCEPT ![id] = payload(production_slots[id].slot_index)]
                  ELSE production_slots
            /\ Done("ok")
       ELSE /\ Cardinality(DOMAIN production_slots) < MaxSlots
            /\ production_slots' =
                  Extend(production_slots, NewId(SlotIds, DOMAIN production_slots), payload(NoIndex))
            /\ Done("ok")

\* ------------------------------------------------------ assignOrderToSlot
\* Input validation, in the order of the source; "ok" when all pass.
assignValidation(order_id, slot_id, slot_date, slot_index, kg_assigned) ==
    IF order_id = None THEN "order_required"
    ELSE IF slot_id = None /\ (slot_date = NoDate \/ slot_index = NoIndex) THEN "slot_required"
    ELSE IF kg_assigned <= 0 THEN "kg_invalid"
    ELSE IF slot_date /= NoDate /\ StrLess(slot_date, todayKey) THEN "past_date_input"
    ELSE "ok"

\* Variant: the lookup by (slot_date, slot_index) finds nothing.
existingSlotNotFound(slots, slot_date, slot_index) == {}

\* The slot rows matching (slot_date, slot_index).
existingSlot(slots, slot_date, slot_index) ==
    {s \in DOMAIN slots : slots[s].slot_date = slot_date /\ slots[s].slot_index = slot_index}

\* The row inserted when no slot exists at (slot_date, slot_index).
createdSlot(slot_date, slot_index) ==
    [slot_date |-> slot_date, slot_index |-> slot_index,
     capacity_kg |-> MaxTotalKg, status |-> "open"]

\* The check on the stored date of a slot resolved without a slot_date field.
storedDatePast(slots, slot_date, resolvedSlotId) ==
    /\ slot_date = NoDate
    /\ resolvedSlotId \in DOMAIN slots
    /\ StrLess(slots[resolvedSlotId].slot_date, todayKey)

slotAssignmentsOf(rows, resolvedSlotId) ==
    {r \in DOMAIN rows : rows[r].slot_id = resolvedSlotId}

orderAssignmentsOf(rows, order_id) ==
    {r \in DOMAIN rows : rows[r].order_id = order_id}

\* Variant: the order's existing row is not discounted when no assignment_id
\* is given.
previousForAssignmentNoDiscount(rows, assignmentId, slotAssignments, existingOrderAssignment) ==
    IF assignmentId /= None /\ assignmentId \in slotAssignments
    THEN rows[assignmentId].kg_assigned
    ELSE 0

previousForAssignment(rows, assignmentId, slotAssignments, existingOrderAssignment) ==
    IF assignmentId /= None
    THEN IF assignmentId \in slotAssignments THEN rows[assignmentId].kg_assigned ELSE 0
    ELSE IF existingOrderAssignment /= None THEN rows[existingOrderAssignment].kg_assigned ELSE 0

orderUsed(rows, orderAssignments, previous, kg_assigned) ==
    SumKg(rows, orderAssignments) - previous + kg_assigned

slotTaken(slotAssignments, slotFirst, assignmentId, existingOrderAssignment) ==
    /\ slotAssignments /= {}
    /\ slotFirst /= assignmentId
    /\ slotFirst /= existingOrderAssignment

\* Variant: the insert is an upsert keyed on slot_id, so that a slot keeps
\* one row.
writeAssignmentOnePerSlot(rows, assignmentId, existingOrderAssignment, order_id, resolvedSlotId, kg_assigned) ==
    LET inSlot == {r \in DOMAIN rows : rows[r].slot_id = resolvedSlotId}
        new == [order_id |-> order_id, slot_id |-> resolvedSlotId, kg_assigned |-> kg_assigned]
    IN IF assignmentId /= None
       THEN IF assignmentId \in DOMAIN rows THEN [rows EXCEPT ![assignmentId] = new] ELSE rows
       ELSE IF existingOrderAssignment /= None /\ existingOrderAssignment \in DOMAIN rows
       THEN [rows EXCEPT ![existingOrderAssignment] =
                [order_id |-> rows[existingOrderAssignment].order_id,
                 slot_id |-> resolvedSlotId, kg_assigned |-> kg_assigned]]
       ELSE IF existingOrderAssignment /= None THEN rows
       ELSE IF inSlot /= {} THEN [rows EXCEPT ![CHOOSE r \in inSlot : TRUE] = new]
       ELSE Extend(rows, NewId(RowIds, DOMAIN rows), new)

\* The order_slots table after the write of an accepted call.
writeAssignment(rows, assignmentId, existingOrderAssignment, order_id, resolvedSlotId, kg_assigned) ==
    IF assignmentId /= None
    THEN IF assignmentId \in DOMAIN rows
         THEN [rows EXCEPT ![assignmentId] =
                  [order_id |-> order_id, slot_id |-> resolvedSlotId, kg_assigned |-> kg_assigned]]
         ELSE rows
    ELSE IF existingOrderAssignment /= None /\ existingOrderAssignment \in DOMAIN rows
    THEN [rows EXCEPT ![existingOrderAssignment] =
             [order_id |-> rows[existingOrderAssignment].order_id,
              slot_id |-> resolvedSlotId, kg_assigned |-> kg_assigned]]
    ELSE IF existingOrderAssignment /= None THEN rows
    ELSE Extend(rows, NewId(RowIds, DOMAIN rows),
                [order_id |-> order_id, slot_id |-> resolvedSlotId, kg_assigned |-> kg_assigned])

insertsRow(assignmentId, existingOrderAssignment) ==
    assignmentId = None /\ existingOrderAssignment = None

setScheduled(os, order_id) ==
    IF order_id \in DOMAIN os THEN [os EXCEPT ![order_id].status = "scheduled"] ELSE os

assignOrderToSlot(assignmentId, order_id, slot_id, slot_date, slot_index, kg_assigned) ==
    LET v == assignValidation(order_id, slot_id, slot_date, slot_index, kg_assigned)
        Done(result, resolved) ==
            last' = Outcome("assign", result, order_id, assignmentId, slot_id, slot_date,
                            kg_assigned, resolved)
        byDate == slot_id = None
        matches == existingSlot(production_slots, slot_date, slot_index)
        creates == byDate /\ matches = {}
        resolvedSlotId ==
            IF ~byDate THEN slot_id
            ELSE IF creates THEN NewId(SlotIds, DOMAIN production_slots)
            ELSE CHOOSE s \in matches : TRUE
        slotsAfter ==
            IF creates
            THEN Extend(production_slots, resolvedSlotId, createdSlot(slot_date, slot_index))
            ELSE production_slots
        slotAssignments == slotAssignmentsOf(order_slots, resolvedSlotId)
        orderAssignments == orderAssignmentsOf(order_slots, order_id)
    IN
    /\ UNCHANGED <<today, inflight, aux>>
    /\ IF v /= "ok"
       THEN Done(v, None) /\ UNCHANGED tables
       ELSE IF order_id \notin DOMAIN orders
       THEN Done("order_error", None) /\ UNCHANGED tables
       ELSE IF byDate /\ Cardinality(matches) > 1
       THEN Done("slot_lookup_error", None) /\ UNCHANGED tables
       ELSE
         /\ creates => Cardinality(DOMAIN production_slots) < MaxSlots
         /\ production_slots' = slotsAfter
         /\ IF storedDatePast(slotsAfter, slot_date, resolvedSlotId)
            THEN Done("past_date_slot", resolvedSlotId) /\ UNCHANGED <<orders, order_slots>>
            ELSE \E slotFirst \in FirstOf(slotAssignments),
                    existingOrderAssignment \in FirstOf(orderAssignments) :
                 LET previous == previousForAssignment(order_slots, assignmentId,
                                                       slotAssignments, existingOrderAssignment)
                 IN
                 IF orderUsed(order_slots, orderAssignments, previous, kg_assigned)
                        > orders[order_id].total_weight_kg
                 THEN Done("exceeds_weight", resolvedSlotId) /\ UNCHANGED <<orders, order_slots>>
                 ELSE IF slotTaken(slotAssignments, slotFirst, assignmentId, existingOrderAssignment)
                 THEN Done("slot_taken", resolvedSlotId) /\ UNCHANGED <<orders, order_slots>>
                 ELSE
                   /\ insertsRow(assignmentId, existingOrderAssignment)
                        => Cardinality(DOMAIN order_slots) < MaxRows
                   /\ order_slots' = writeAssignment(order_slots, assignmentId,
                                          existingOrderAssignment, order_id, resolvedSlotId,
                                          kg_assigned)
                   /\ orders' = setScheduled(orders, order_id)
                   /\ last' = Moved(Outcome("assign", "ok", order_id, assignmentId, slot_id,
                                             slot_date, kg_assigned, resolvedSlotId),
                                     order_slots, existingOrderAssignment)

\* ------------------------------------------------------- deleteAssignment
deleteAssignment(assignmentId) ==
    LET Done(result, order_id) ==
            last' = Outcome("delete", result, order_id, assignmentId, None, NoDate, 0, None)
    IN
    /\ UNCHANGED <<today, production_slots, inflight, aux>>
    /\ IF assignmentId = None
       THEN Done("missing_assignment_id", None) /\ UNCHANGED <<orders, order_slots>>
       ELSE IF assignmentId \in DOMAIN order_slots
       THEN LET orderSlot == order_slots[assignmentId]
            IN /\ order_slots' = Remove(order_slots, assignmentId)
               /\ orders' = IF orderSlot.order_id \in DOMAIN orders
                            THEN [orders EXCEPT ![orderSlot.order_id].status = "unassigned"]
                            ELSE orders
               /\ Done("ok", orderSlot.order_id)
       ELSE Done("ok", None) /\ UNCHANGED <<orders, order_slots>>

\* ------------------------------------------------------------- the clock
AdvanceDay ==
    /\ today < MaxDay
    /\ today' = today + 1
    /\ last' = NoOutcome
    /\ UNCHANGED <<tables, inflight, aux>>

\* ------------------------------------------- the displayed schedule status
\* A page not rendered yet.
NoPage == [rendered |-> FALSE, today |-> 0, tables |-> <<>>, status |-> <<>>]


\* The rows a select without ORDER BY returned, in the order it returned them.
Fetched(rows, o) == [i \in 1..Len(o) |-> [id |-> o[i]] @@ rows[o[i]]]

\* assignmentByOrderId.get(order_id): the position of the first fetched row
\* of the order, 0 when the map has no entry.
firstAssignment(assignments, order_id) ==
    LET hits == {i \in 1..Len(assignments) : assignments[i].order_id = order_id}
    IN IF hits = {} THEN 0
       ELSE (CHOOSE i \in hits : \A j \in hits : i <= j)

\* slotDate && slotDate < todayKey, slotDate being undefined for a missing slot.
slotDateBefore(slots, slot_id, key) ==
    /\ slot_id \in DOMAIN slots
    /\ slots[slot_id].slot_date /= NoDate
    /\ StrLess(slots[slot_id].slot_date, key)

\* The schedule table of the admin orders page.
getScheduleStatus(order_id, os, slots, assignments, key) ==
    IF os[order_id].status = "archived" THEN "archived"
    ELSE LET entry == firstAssignment(assignments, order_id)
         IN IF entry = 0 THEN "unassigned"
            ELSE IF slotDateBefore(slots, assignments[entry].slot_id, key)
            THEN "pending completion"
            ELSE "scheduled"

\* The All Orders page.
scheduleStatusById(os, slots, assignments, key) ==
    [order_id \in DOMAIN os |->
        IF os[order_id].status = "archived" THEN "archived"
        ELSE LET assignment == firstAssignment(assignments, order_id)
             IN IF assignment = 0 THEN "unassigned"
                ELSE IF slotDateBefore(slots, assignments[assignment].slot_id, key)
                THEN "pending completion"
                ELSE "scheduled"]

Rendered(status) == [rendered |-> TRUE, today |-> today, tables |-> tables, status |-> status]

\* The schedule table renders from what it was given.
SchedulePage(o) ==
    /\ shown' = [shown EXCEPT !.schedule =
                    Rendered([order_id \in DOMAIN orders |->
                                 getScheduleStatus(order_id, orders, production_slots,
                                                   Fetched(order_slots, o), todayKey)])]
    /\ UNCHANGED <<schedule, last, blocksView, refunds, creation, priced, front>>

AllOrdersPage(o) ==
    /\ shown' = [shown EXCEPT !.all =
                    Rendered(scheduleStatusById(orders, production_slots,
                                                Fetched(order_slots, o), todayKey))]
    /\ UNCHANGED <<schedule, last, blocksView, refunds, creation, priced, front>>

\* ----------------------------------------------------------------- pricing
\* Amounts are in cents.  The tier and packaging tables are one flat tier and
\* one packaging option.
PricingContext == [tier_price |-> 2000, unit_price |-> 500]

Extras == {"rainbow", "two_colour", "pinstripe"}
Jackets == {None, "rainbow", "two_colour", "pinstripe", "two_colour_pinstripe", "other"}

\* The settings row as far as pricing reads it.
PricingSettings(urgency_fee, urgency_period_days, transaction_fee_percent) ==
    [jacket_rainbow |-> 200, jacket_two_colour |-> 300, jacket_pinstripe |-> 700,
     urgency_fee |-> urgency_fee, urgency_period_days |-> urgency_period_days,
     transaction_fee_percent |-> transaction_fee_percent]

\* The admin page: the extras of a stored order, from its jacket column.
buildExtras(jacket) ==
    IF jacket = None THEN <<>>
    ELSE IF jacket = "two_colour_pinstripe" THEN <<"two_colour", "pinstripe">>
    ELSE IF jacket = "two_colour" THEN <<"two_colour">>
    ELSE IF jacket = "pinstripe" THEN <<"pinstripe">>
    ELSE IF jacket = "rainbow" THEN <<"rainbow">>
    ELSE <<>>

\* The checkout page: the extras of a cart item.  An absent jacketExtras and
\* an empty one are both <<>>.
buildExtrasForItem(item) ==
    IF Len(item.jacketExtras) > 0 THEN item.jacketExtras
    ELSE IF item.jacket = "two_colour_pinstripe" THEN <<"two_colour", "pinstripe">>
    ELSE IF item.jacket = "two_colour" THEN <<"two_colour">>
    ELSE IF item.jacket = "pinstripe" THEN <<"pinstripe">>
    ELSE IF item.jacket = "rainbow" THEN <<"rainbow">>
    ELSE <<>>

\* The body the checkout page posts: jacketExtras: item.jacketExtras ?? [].
postedItem(item) == item

\* The checkout routes: extras: item.jacketExtras ?? undefined.
extrasOfPostedItem(item) == item.jacketExtras

surcharge(s, extra) ==
    IF extra = "rainbow" THEN s.jacket_rainbow
    ELSE IF extra = "two_colour" THEN s.jacket_two_colour
    ELSE s.jacket_pinstripe

RECURSIVE extrasPriceOf(_, _)
extrasPriceOf(s, extras) ==
    IF extras = <<>> THEN 0
    ELSE surcharge(s, Head(extras)) + extrasPriceOf(s, Tail(extras))

percentOf(percent, amount) == (amount * percent) \div 100

\* Variant: the urgency fee charged whatever the due date.
urgencyAppliesAlways(dueDate, s) == dueDate /= NoNumber

\* dueDate set and (dueDate - today) in whole calendar days within the window.
urgencyApplies(dueDate, s) ==
    dueDate /= NoNumber /\ dueDate - today <= s.urgency_period_days

\* The pricing engine's breakdown of one custom item.
calculatePricingWithContext(quantity, dueDate, extras, s) ==
    LET basePrice == PricingContext.tier_price
        packagingPrice == PricingContext.unit_price * quantity
        labelsPrice == 0
        extrasPrice == extrasPriceOf(s, extras)
        subtotal == basePrice + packagingPrice + labelsPrice + extrasPrice
        urgencyFee == IF urgencyApplies(dueDate, s) THEN percentOf(s.urgency_fee, subtotal)
                      ELSE 0
        transactionFee == percentOf(s.transaction_fee_percent, subtotal + urgencyFee)
    IN [basePrice |-> basePrice, packagingPrice |-> packagingPrice,
        labelsPrice |-> labelsPrice, extrasPrice |-> extrasPrice,
        urgencyFee |-> urgencyFee, transactionFee |-> transactionFee,
        total |-> subtotal + urgencyFee + transactionFee]

\* Nothing priced yet, under the settings row s.
NoPriced(s) ==
    [by |-> "none", jacket |-> None, jacketExtras |-> <<>>, quantity |-> 0,
     dueDate |-> NoNumber, today |-> 0, settings |-> s,
     extras |-> <<>>, pricing |-> calculatePricingWithContext(0, NoNumber, <<>>, s)]

\* ------------------------------------------------------ the checkout_cart's total
\* The cart, the checkout page's pricingOverrides (by position of the item in
\* the cart) and what a payment showed and charged.  The page's amounts are in
\* hundredths of a cent: premadeSubtotal * (transactionFeePercent / 100) is
\* not rounded.
NoPayment == [shown |-> NoNumber, totalAmount |-> NoNumber]

EmptyCart(dueDate) ==
    [page |-> "shop", items |-> <<>>, dueDate |-> dueDate, pricingOverrides |-> <<>>,
     payment |-> NoPayment]

RECURSIVE SumOver(_, _)
SumOver(f, indices) ==
    IF indices = {} THEN 0
    ELSE LET i == CHOOSE x \in indices : TRUE IN f[i] + SumOver(f, indices \ {i})

\* cartPricing.total of the checkout page.  A custom item without an override
\* adds nothing here: the page is modelled once its overrides are loaded.
cartPricing(items, pricingOverrides, transactionFeePercent) ==
    LET indices == DOMAIN items
        premade == {i \in indices : items[i].type = "premade"}
        priced_ == {i \in indices \ premade : i \in DOMAIN pricingOverrides}
        amount == [i \in premade |-> items[i].price * items[i].quantity]
        baseAmount == [i \in priced_ |->
                          pricingOverrides[i].basePrice + pricingOverrides[i].packagingPrice
                          + pricingOverrides[i].labelsPrice + pricingOverrides[i].extrasPrice]
        premadeSubtotal == SumOver(amount, premade)
        baseSubtotal == premadeSubtotal + SumOver(baseAmount, priced_)
        urgencyTotal == SumOver([i \in priced_ |-> pricingOverrides[i].urgencyFee], priced_)
        transactionTotal ==
            100 * SumOver([i \in priced_ |-> pricingOverrides[i].transactionFee], priced_)
            + premadeSubtotal * transactionFeePercent
    IN [total |-> 100 * (baseSubtotal + urgencyTotal) + transactionTotal,
        urgencyTotal |-> urgencyTotal, transactionTotal |-> transactionTotal]

\* Number(x.toFixed(2)) of an amount in hundredths of a cent, in cents.
toFixed2(amount) == (amount + 50) \div 100

\* totalAmount of buildWooOrderContext, in cents: the line totals summed.
totalAmountOf(items, dueDate, s) ==
    LET total == [i \in DOMAIN items |->
                     IF items[i].type = "premade"
                     THEN toFixed2(100 * items[i].price * items[i].quantity)
                     ELSE toFixed2(100 * calculatePricingWithContext(
                                             items[i].quantity, dueDate,
                                             extrasOfPostedItem(postedItem(items[i])), s).total)]
    IN SumOver(total, DOMAIN items)

addToCart(item) ==
    /\ checkout_cart.page = "shop"
    /\ checkout_cart' = [checkout_cart EXCEPT !.items = Append(@, item)]
    /\ UNCHANGED <<schedule, last, blocksView, refunds, creation, shown, priced, buckets, limits>>

\* The checkout page opens with a due date picked: its effect reprices every
\* custom item and stores the answers.
openCheckout(s) ==
    /\ checkout_cart.page = "shop"
    /\ checkout_cart.items /= <<>>
    /\ checkout_cart' = [checkout_cart EXCEPT
                   !.page = "checkout",
                   !.pricingOverrides =
                       [i \in {j \in DOMAIN checkout_cart.items : checkout_cart.items[j].type = "custom"} |->
                           calculatePricingWithContext(checkout_cart.items[i].quantity, checkout_cart.dueDate,
                                                       buildExtrasForItem(checkout_cart.items[i]), s)]]
    /\ UNCHANGED <<schedule, last, blocksView, refunds, creation, shown, priced, buckets, limits>>

\* POST /api/payments/square with the cart the page shows: the amount charged
\* is Math.round(totalAmount * 100) cents.
squarePayment(s) ==
    LET totalAmount == totalAmountOf(checkout_cart.items, checkout_cart.dueDate, s)
    IN /\ checkout_cart.page = "checkout"
       /\ totalAmount > 0
       /\ checkout_cart' = [checkout_cart EXCEPT
                      !.page = "paid",
                      !.payment = [shown |-> cartPricing(checkout_cart.items, checkout_cart.pricingOverrides,
                                                         s.transaction_fee_percent).total,
                                   totalAmount |-> totalAmount]]
       /\ UNCHANGED <<schedule, last, blocksView, refunds, creation, shown, priced, buckets, limits>>

\* ------------------------------------------------------ the rate limiter
\* buckets is the limiter's Map.  limits holds Date.now(), the options the
\* callers pass, the last call and its answer, and for each key the time of
\* the first accepted call of its current window with the number of calls
\* accepted since.
NoCalls(options) ==
    [now |-> 0, options |-> options, accepted |-> <<>>,
     call |-> [key |-> <<>>, ok |-> TRUE, retryAfterSeconds |-> 0]]

\* Math.ceil(ms / 1000)
ceilSeconds(ms) == (ms + 999) \div 1000

\* Variant: the window ends as soon as now reaches resetAt.
rateLimitEndingEarly(key, options) ==
    LET now == limits.now
        fresh == key \notin DOMAIN buckets \/ now >= buckets[key].resetAt
    IN IF fresh
       THEN [buckets |-> Extend(buckets, key, [count |-> 1, resetAt |-> now + options.windowMs]),
             ok |-> TRUE, retryAfterSeconds |-> ceilSeconds(options.windowMs)]
       ELSE IF buckets[key].count >= options.max
       THEN [buckets |-> buckets, ok |-> FALSE,
             retryAfterSeconds |-> ceilSeconds(buckets[key].resetAt - now)]
       ELSE [buckets |-> [buckets EXCEPT ![key].count = @ + 1], ok |-> TRUE,
             retryAfterSeconds |-> ceilSeconds(buckets[key].resetAt - now)]

\* rateLimit(key, options): the Map after the call and the answer.
rateLimit(key, options) ==
    LET now == limits.now
        fresh == key \notin DOMAIN buckets \/ now > buckets[key].resetAt
    IN IF fresh
       THEN [buckets |-> Extend(buckets, key, [count |-> 1, resetAt |-> now + options.windowMs]),
             ok |-> TRUE, retryAfterSeconds |-> ceilSeconds(options.windowMs)]
       ELSE IF buckets[key].count >= options.max
       THEN [buckets |-> buckets, ok |-> FALSE,
             retryAfterSeconds |-> ceilSeconds(buckets[key].resetAt - now)]
       ELSE [buckets |-> [buckets EXCEPT ![key].count = @ + 1], ok |-> TRUE,
             retryAfterSeconds |-> ceilSeconds(buckets[key].resetAt - now)]

\* The calls accepted in the window of key, after a call at time now.
acceptedAfter(key, ok) ==
    IF ~ok THEN limits.accepted
    ELSE IF key \in DOMAIN limits.accepted
            /\ limits.now <= limits.accepted[key].since + limits.options.windowMs
    THEN [limits.accepted EXCEPT ![key].calls = @ + 1]
    ELSE Extend(limits.accepted, key, [since |-> limits.now, calls |-> 1])

\* A payment request from ip reaches the limiter.
limitedRequest(ip) ==
    LET key == <<"payments:square", ip>>
        limit == rateLimit(key, limits.options)
    IN /\ buckets' = limit.buckets
       /\ limits' = [limits EXCEPT
                        !.accepted = acceptedAfter(key, limit.ok),
                        !.call = [key |-> key, ok |-> limit.ok,
                                  retryAfterSeconds |-> limit.retryAfterSeconds]]
       /\ UNCHANGED <<schedule, last, blocksView, refunds, creation, shown, priced,
                      checkout_cart>>

\* Time passes.
elapse(ms) ==
    /\ limits.now + ms <= MaxClock
    /\ limits' = [limits EXCEPT !.now = @ + ms]
    /\ UNCHANGED <<schedule, last, blocksView, refunds, creation, shown, priced,
                   checkout_cart, buckets>>

InitFront ==
    /\ checkout_cart = EmptyCart(NoNumber)
    /\ buckets = <<>>
    /\ limits = NoCalls([windowMs |-> 1, max |-> 1])

InitViews ==
    /\ shown = [schedule |-> NoPage, all |-> NoPage]
    /\ priced = NoPriced(PricingSettings(0, 0, 0))
    /\ InitFront

pricedAs(by, item, dueDate, s, extras, pricing) ==
    /\ s = priced.settings
    /\ priced' = [by |-> by, jacket |-> item.jacket, jacketExtras |-> item.jacketExtras,
                  quantity |-> item.quantity, dueDate |-> dueDate, today |-> today,
                  settings |-> s, extras |-> extras, pricing |-> pricing]
    /\ UNCHANGED <<schedule, last, blocksView, refunds, creation, shown, front>>

\* The admin orders page prices a stored custom order.
adminPagePricing(order, s) ==
    /\ order.quantity > 0
    /\ pricedAs("admin", order, order.due_date, s, buildExtras(order.jacket),
                calculatePricingWithContext(order.quantity, order.due_date,
                                            buildExtras(order.jacket), s))

\* The checkout page asks for the price of a cart item.
fetchPricing(item, date, s) ==
    /\ item.quantity /= 0
    /\ pricedAs("checkout_page", item, date, s, buildExtrasForItem(item),
                calculatePricingWithContext(item.quantity, date, buildExtrasForItem(item), s))

\* Variant: the due date is not passed on to the pricing engine.
buildCustomItemLineWithoutDueDate(item, dueDate, s) ==
    LET pricing == calculatePricingWithContext(item.quantity, NoNumber,
                                               extrasOfPostedItem(item), s)
    IN /\ pricing.total > 0
       /\ pricedAs("checkout_route", item, dueDate, s, extrasOfPostedItem(item), pricing)

\* A checkout route prices a posted cart item.
buildCustomItemLine(item, dueDate, s) ==
    LET pricing == calculatePricingWithContext(item.quantity, dueDate,
                                               extrasOfPostedItem(item), s)
    IN /\ pricing.total > 0
       /\ pricedAs("checkout_route", item, dueDate, s, extrasOfPostedItem(item), pricing)

\* ------------------------------------------------------ the Woo webhook
\* new Date(date_paid).toISOString(): the instant WooCommerce reports, null
\* for a null date_paid.
paidAtOf(date_paid) == date_paid

\* The columns the webhook writes for a delivery.
webhookUpdates(row, status, date_paid) ==
    LET paid == status \in {"processing", "completed"}
        paidAt == paidAtOf(date_paid)
        woo == [row EXCEPT !.woo_order_status = status]
    IN IF paid /\ paidAt /= NoDate
       THEN [woo EXCEPT !.paid_at = paidAt, !.status = "pending"]
       ELSE woo

\* POST /api/woo/webhook.  last records the delivery: order_id the Woo order
\* id, resolved the Woo status, slot_date the date_paid.
wooWebhook(signed, id, status, date_paid) ==
    LET Done(result) ==
            last' = Outcome("webhook", result, id, None, None, date_paid, 0, status)
        matched == {o \in DOMAIN orders : orders[o].woo_order_id = id}
    IN /\ UNCHANGED <<today, production_slots, order_slots, inflight, aux>>
       /\ IF ~signed THEN Done("invalid_signature") /\ UNCHANGED orders
          ELSE IF id = None THEN Done("missing_woo_order_id") /\ UNCHANGED orders
          ELSE IF matched = {} THEN Done("ok") /\ UNCHANGED orders
          ELSE /\ orders' = [o \in DOMAIN orders |->
                                IF o \in matched
                                THEN webhookUpdates(orders[o], status, date_paid)
                                ELSE orders[o]]
               /\ Done("ok")

\* ------------------------------------------------- status-only actions
\* The rows an update of status reaches, written with the new status.
withStatus(os, ids, status) ==
    [o \in DOMAIN os |-> IF o \in ids THEN [os[o] EXCEPT !.status = status] ELSE os[o]]

statusAction(op, orderId, ids, status) ==
    /\ orderId /= None
    /\ orders' = withStatus(orders, ids, status)
    /\ last' = Outcome(op, "ok", orderId, None, None, NoDate, 0, None)
    /\ UNCHANGED <<today, production_slots, order_slots, inflight, aux>>

archiveOrder(orderId) == statusAction("archiveOrder", orderId, {orderId}, "archived")

unarchiveOrder(orderId) == statusAction("unarchiveOrder", orderId, {orderId}, "pending")

\* update({ status: "shipped" }).eq("id", orderId)
markAdditionalItemShipped(orderId) ==
    statusAction("markAdditionalItemShipped", orderId, {orderId}, "shipped")

\* update({ status: "shipped" }).in("id", orderIds).eq("design_type", "premade")
markAdditionalItemsShipped(orderIds) ==
    /\ orderIds /= {}
    /\ statusAction("markAdditionalItemsShipped", CHOOSE o \in orderIds : TRUE,
                    {o \in orderIds \cap DOMAIN orders : orders[o].design_type = "premade"},
                    "shipped")

\* ------------------------------------------------- production blocks
OPEN_OVERRIDE_REASON == "Open override"
MANUAL_BLOCK_REASON == "Manual block"

\* The rows whose range is exactly [date, date].
exactBlocks(blocks, date) ==
    {b \in DOMAIN blocks : blocks[b].start_date = date /\ blocks[b].end_date = date}

singleDayBlock(date, reason) == [start_date |-> date, end_date |-> date, reason |-> reason]

addOpenOverride(date) ==
    LET Done(result) ==
            last' = Outcome("addOpenOverride", result, None, None, None, date, 0, None)
        existing == {b \in exactBlocks(production_blocks, date) :
                        production_blocks[b].reason = OPEN_OVERRIDE_REASON}
    IN
    /\ UNCHANGED <<schedule, settings, views, calendar, refunds, creation>>
    /\ IF date = NoDate
       THEN Done("date_required") /\ UNCHANGED production_blocks
       ELSE IF Cardinality(existing) > 1
       THEN Done("lookup_error") /\ UNCHANGED production_blocks
       ELSE IF existing /= {}
       THEN Done("ok") /\ UNCHANGED production_blocks
       ELSE /\ Cardinality(DOMAIN production_blocks) < MaxBlocks
            /\ production_blocks' =
                  Extend(production_blocks, NewId(BlockIds, DOMAIN production_blocks),
                         singleDayBlock(date, OPEN_OVERRIDE_REASON))
            /\ Done("ok")

addManualBlock(date) ==
    LET Done(result) ==
            last' = Outcome("addManualBlock", result, None, None, None, date, 0, None)
        removed == {b \in exactBlocks(production_blocks, date) :
                       production_blocks[b].reason = OPEN_OVERRIDE_REASON}
        afterRemove == [b \in DOMAIN production_blocks \ removed |-> production_blocks[b]]
        existing == {b \in exactBlocks(afterRemove, date) :
                        afterRemove[b].reason /= OPEN_OVERRIDE_REASON}
    IN
    /\ UNCHANGED <<schedule, settings, views, calendar, refunds, creation>>
    /\ IF date = NoDate
       THEN Done("date_required") /\ UNCHANGED production_blocks
       ELSE IF Cardinality(existing) > 1
       THEN Done("lookup_error") /\ production_blocks' = afterRemove
       ELSE IF existing /= {}
       THEN Done("ok") /\ production_blocks' = afterRemove
       ELSE /\ Cardinality(DOMAIN afterRemove) < MaxBlocks
            /\ production_blocks' =
                  Extend(afterRemove, NewId(BlockIds, DOMAIN afterRemove),
                         singleDayBlock(date, MANUAL_BLOCK_REASON))
            /\ Done("ok")

removeManualBlock(date) ==
    LET Done(result) ==
            last' = Outcome("removeManualBlock", result, None, None, None, date, 0, None)
        removed == {b \in exactBlocks(production_blocks, date) :
                       production_blocks[b].reason = MANUAL_BLOCK_REASON}
    IN
    /\ UNCHANGED <<schedule, settings, views, calendar, refunds, creation>>
    /\ IF date = NoDate
       THEN Done("date_required") /\ UNCHANGED production_blocks
       ELSE /\ production_blocks' =
                  [b \in DOMAIN production_blocks \ removed |-> production_blocks[b]]
            /\ Done("ok")

\* ---------------------------------------------------- the calendar view
\* Date.getDay() of a day of the modelled calendar: 0 is Sunday.
Weekday(day) == day % 7

isBlockedByDefault(day) ==
    LET d == Weekday(day)
    IN IF d = 0 THEN settings.no_production_sun
       ELSE IF d = 1 THEN settings.no_production_mon
       ELSE IF d = 2 THEN settings.no_production_tue
       ELSE IF d = 3 THEN settings.no_production_wed
       ELSE IF d = 4 THEN settings.no_production_thu
       ELSE IF d = 5 THEN settings.no_production_fri
       ELSE settings.no_production_sat

\* reason.trim().toLowerCase() on the reasons of the model.
TrimLower(reason) ==
    IF reason \in {"Open override", " open override "} THEN "open override"
    ELSE IF reason = "Manual block" THEN "manual block"
    ELSE IF reason = "Holiday" THEN "holiday"
    ELSE reason

isOpenOverride(reason) == reason /= None /\ TrimLower(reason) = "open override"

isManualBlock(reason) == reason /= None /\ TrimLower(reason) = "manual block"

\* key >= block.start && key <= block.end
inRange(block, key) == ~StrLess(key, block.start_date) /\ ~StrLess(block.end_date, key)

blockReasonForDate(blocks, key) ==
    LET Covers(b) == inRange(b, key)
        Explicit(b) == ~isOpenOverride(b.reason)
        matches == SelectSeq(blocks, Covers)
        explicit == SelectSeq(matches, Explicit)
    IN IF explicit = <<>> THEN None ELSE Head(explicit).reason

hasOpenOverrideForDate(blocks, key) ==
    \E i \in 1..Len(blocks) : inRange(blocks[i], key) /\ isOpenOverride(blocks[i].reason)

\* Boolean(reason)
Truthy(reason) == reason /= None /\ reason /= ""

NoCalendar ==
    [key |-> NoDate, defaultBlocked |-> FALSE, reason |-> None,
     hasOpenOverride |-> FALSE, blocked |-> FALSE]

\* One day cell of the calendar, from the blocks in the order fetched.
RenderDay(day, blocks) ==
    LET key == DateKey(day)
        defaultBlocked == isBlockedByDefault(day)
        reason == blockReasonForDate(blocks, key)
        hasOpenOverride == hasOpenOverrideForDate(blocks, key)
    IN /\ calendar' = [key |-> key, defaultBlocked |-> defaultBlocked, reason |-> reason,
                       hasOpenOverride |-> hasOpenOverride,
                       blocked |-> (defaultBlocked /\ ~hasOpenOverride) \/ Truthy(reason)]
       /\ UNCHANGED <<schedule, last, production_blocks, settings, views, refunds, creation>>

\* ----------------------------------------------------------------- refunds
\* refundOrder (the admin server action) and POST /api/payments/refund (the
\* route), one store or provider call per step.  refund holds the locals of
\* the request and what has happened to it; it is kept until the next
\* request starts.
NoRefund ==
    [pc |-> "idle", via |-> None, id |-> None, order |-> Order(0), amount |-> 0,
     provider |-> "uncalled", updated |-> FALSE, email |-> "unsent"]

\* Number(order.total_price ?? 0): a null price counts as 0.
PriceNumber(total_price) == IF total_price = NoNumber THEN 0 ELSE total_price

\* The amount to refund: the route takes a finite body.amount first.
refundAmount(via, body_amount, order) ==
    IF via = "route" /\ body_amount /= NoNumber THEN body_amount
    ELSE PriceNumber(order.total_price)

\* The checks before the provider is called; "ok" when all pass.
refundValidation(id, amount) ==
    IF id = None THEN "missing_id"
    ELSE IF id \notin DOMAIN orders THEN "order_not_found"
    ELSE IF orders[id].payment_provider = None \/ orders[id].payment_transaction_id = None
    THEN "missing_payment_details"
    ELSE IF amount <= 0 THEN "invalid_amount"
    ELSE "ok"

\* redirect() of next/navigation throws; refundOrder calls it inside its
\* try block, so its catch turns it into the error redirect.
redirectInTry(outcome) == "error_next_redirect"

\* What the caller is told once every step has succeeded.
refundResponse(via) == IF via = "route" THEN "ok" ELSE redirectInTry("toast_success")

\* What the caller is told for a provider nobody supports.
unsupportedProviderResponse(via) ==
    IF via = "route" THEN "unsupported_provider" ELSE redirectInTry("unsupported_provider")

\* The request ends and the caller is told result.
refundEnds(result) ==
    /\ last' = Outcome("refund", result, refund.id, None, None, NoDate, 0, None)
    /\ refund' = [refund EXCEPT !.pc = "done"]

refundGoes(label) ==
    /\ refund' = [refund EXCEPT !.pc = label]
    /\ last' = last

rBegin(via, id, body_amount) ==
    LET order == IF id \in DOMAIN orders THEN orders[id] ELSE Order(0)
        amount == refundAmount(via, body_amount, order)
        v == refundValidation(id, amount)
        locals == [NoRefund EXCEPT !.via = via, !.id = id, !.order = order, !.amount = amount]
    IN /\ refund.pc \in {"idle", "done"}
       /\ UNCHANGED <<schedule, blocksView, views, provider_refunds, creation>>
       /\ IF v /= "ok"
          THEN /\ last' = Outcome("refund", v, id, None, None, NoDate, 0, None)
               /\ refund' = [locals EXCEPT !.pc = "done"]
          ELSE /\ last' = NoOutcome
               /\ refund' = [locals EXCEPT !.pc = "provider"]

\* Variant: a failed provider call is not noticed.
afterProviderIgnoringFailure(returned) == "update"

\* Where the handler goes after the provider call returned or threw.
afterProvider(returned) == IF returned THEN "update" ELSE "catch"

\* refundSquarePayment / refundPayPalCapture: the provider accepts or the
\* call throws.
rProvider ==
    /\ refund.pc = "provider"
    /\ UNCHANGED <<schedule, blocksView, views, creation>>
    /\ IF refund.order.payment_provider \notin {"square", "paypal"}
       THEN /\ refundEnds(unsupportedProviderResponse(refund.via))
            /\ UNCHANGED provider_refunds
       ELSE \E returned \in BOOLEAN :
              /\ provider_refunds' =
                    IF returned
                    THEN provider_refunds \cup {refund.order.payment_transaction_id}
                    ELSE provider_refunds
              /\ IF afterProvider(returned) = "update"
                 THEN /\ refund' = [refund EXCEPT !.pc = "update",
                                                   !.provider = IF returned THEN "returned"
                                                                ELSE "threw"]
                      /\ last' = last
                 ELSE /\ refund' = [refund EXCEPT !.pc = "done", !.provider = "threw"]
                      /\ last' = Outcome("refund", "provider_failed", refund.id,
                                         None, None, NoDate, 0, None)

\* Variant: the refund is written to every row sharing the base order number.
refundedRowsByBaseNumber(os, id) ==
    {o \in DOMAIN os : os[o].order_number.base = os[id].order_number.base} \cup {id}

\* The rows the update .eq("id", order.id) matches.
refundedRows(os, id) == {o \in DOMAIN os : o = id}

rUpdate ==
    /\ refund.pc = "update"
    /\ orders' = [o \in DOMAIN orders |->
                     IF o \in refundedRows(orders, refund.id)
                     THEN [orders[o] EXCEPT !.status = "refunded", !.refunded_at = todayKey]
                     ELSE orders[o]]
    /\ UNCHANGED <<today, production_slots, order_slots, inflight, blocksView, views, provider_refunds,
                   creation>>
    /\ refund' = [refund EXCEPT !.updated = TRUE,
                                !.pc = IF refund.order.woo_order_id /= None THEN "woo"
                                       ELSE IF refund.order.customer_email /= None THEN "email"
                                       ELSE "respond"]
    /\ last' = last

\* updateWooOrder: returns or throws.
rWoo ==
    /\ refund.pc = "woo"
    /\ UNCHANGED <<schedule, blocksView, views, provider_refunds, creation>>
    /\ \/ refundGoes(IF refund.order.customer_email /= None THEN "email" ELSE "respond")
       \/ refundEnds("woo_failed")

\* Where the handler goes after sendCustomerRefundEmail returned or threw.
afterEmail(sent) == IF sent THEN "respond" ELSE "catch"

rEmail ==
    /\ refund.pc = "email"
    /\ UNCHANGED <<schedule, blocksView, views, provider_refunds, creation>>
    /\ \E sent \in BOOLEAN :
          IF afterEmail(sent) = "respond"
          THEN /\ refund' = [refund EXCEPT !.pc = "respond",
                                            !.email = IF sent THEN "sent" ELSE "failed"]
               /\ last' = last
          ELSE /\ refund' = [refund EXCEPT !.pc = "done", !.email = "failed"]
               /\ last' = Outcome("refund", "email_failed", refund.id, None, None, NoDate, 0, None)

rRespond ==
    /\ refund.pc = "respond"
    /\ UNCHANGED <<schedule, blocksView, views, provider_refunds, creation>>
    /\ refundEnds(refundResponse(refund.via))

\* ------------------------------------------------------- order creation
\* The insert branch of upsertOrder (admin), POST /api/orders (public order
\* placement) and the checkout routes built on buildWooOrderContext.  The
\* two handlers with a retry loop run one store call per step; placing
\* holds the locals of the request and is kept until the next one starts.
MaxAttempts == 5

QuoteBlockIds == {"q1", "q2", "q3"}

\* Identifiers of the rows the creation requests insert.
PlacedIds == OrderIds \cup {"E", "F", "G", "H"}

NoError == [code |-> "", mentions |-> {}]
UniqueViolation == [code |-> "23505", mentions |-> {"order_number", "duplicate", "unique"}]
LabelColumnError == [code |-> "PGRST204", mentions |-> {"label_image_url", "column"}]
OtherError == [code |-> "57014", mentions |-> {"timeout"}]

isOrderNumberConflict(error) ==
    \/ error.code = "23505"
    \/ "order_number" \in error.mentions /\ error.mentions \cap {"duplicate", "unique"} /= {}

\* The public route answers an error naming label_image_url by dropping
\* the column from the payload and trying again.
retriesWithoutLabel(via, error) == via = "public" /\ "label_image_url" \in error.mentions

\* The number without its sibling suffix; null stays null.
normalizeBaseOrderNumber(value) ==
    IF value = NoOrderNumber THEN NoOrderNumber ELSE [base |-> value.base, suffix |-> ""]

\* The next number of the sequence.
generateOrderNumber == [base |-> order_seq + 1, suffix |-> ""]

\* The custom and premade numbers of a creation, and whether a number was
\* generated for them.
buildOrderNumbers(seed, hasPremadeSelections) ==
    LET seeded == normalizeBaseOrderNumber(seed)
        baseNumber == IF seeded /= NoOrderNumber THEN seeded ELSE generateOrderNumber
    IN [generated |-> seeded = NoOrderNumber,
        customOrderNumber |->
            IF hasPremadeSelections THEN [baseNumber EXCEPT !.suffix = "a"] ELSE baseNumber,
        premadeOrderNumber |->
            IF hasPremadeSelections THEN [baseNumber EXCEPT !.suffix = "b"] ELSE NoOrderNumber]

\* What an insert of the rows can answer: the unique constraint on
\* order_number, a column the schema lacks, a failure of the store.
InsertErrors(os, rows, hasLabelKey) ==
    LET taken == \E i \in 1..Len(rows), o \in DOMAIN os :
                    /\ rows[i].order_number /= NoOrderNumber
                    /\ os[o].order_number = rows[i].order_number
    IN {OtherError}
         \cup (IF hasLabelKey THEN {LabelColumnError} ELSE {})
         \cup (IF taken THEN {UniqueViolation} ELSE {NoError})

\* The table after the rows were inserted, each under a new id.
RECURSIVE insertRows(_, _)
insertRows(os, rows) ==
    IF rows = <<>> THEN os
    ELSE insertRows(Extend(os, NewId(PlacedIds, DOMAIN os), Head(rows)), Tail(rows))

\* dateKey >= block.start_date && dateKey <= block.end_date, for some block
isDateBlocked(dateKey, blocks) == \E b \in DOMAIN blocks : inRange(blocks[b], dateKey)

addQuoteBlock(start_date, end_date) ==
    LET resolvedEnd == IF end_date /= NoDate THEN end_date ELSE start_date
    IN /\ start_date /= NoDate
       /\ quote_blocks' = Extend(quote_blocks, NewId(QuoteBlockIds, DOMAIN quote_blocks),
                                 [start_date |-> start_date, end_date |-> resolvedEnd])
       /\ last' = Outcome("addQuoteBlock", "ok", None, None, None, start_date, 0, None)
       /\ UNCHANGED <<schedule, blocksView, views, refunds, checkout_page, order_seq, placing>>

removeQuoteBlock(id) ==
    /\ id /= None
    /\ quote_blocks' = [b \in DOMAIN quote_blocks \ {id} |-> quote_blocks[b]]
    /\ last' = Outcome("removeQuoteBlock", "ok", None, None, None, NoDate, 0, None)
    /\ UNCHANGED <<schedule, blocksView, views, refunds, checkout_page, order_seq, placing>>

\* No premade candy selected.
NoPremade == [selected |-> FALSE, found |-> FALSE, kg |-> 0]

NoInput ==
    [kg |-> NoNumber, category_id |-> None, packaging_option_id |-> None,
     quantity |-> NoNumber, due_date |-> NoDate, premade |-> NoPremade]

NoPlacing ==
    [pc |-> "idle", via |-> None, input |-> NoInput, attempt |-> 0, inserts |-> 0,
     payload |-> Order(0), label |-> FALSE, premadeOrderNumber |-> NoOrderNumber,
     insertError |-> NoError, result |-> None]

\* The request ends and the caller is told result.
placingEnds(locals, result) ==
    /\ placing' = [locals EXCEPT !.pc = "done", !.result = result]
    /\ last' = Outcome("place", result, None, None, None, locals.input.due_date, 0, None)

\* The orders row a creation request asks for.
candidate(input, order_number, status) ==
    [Order(input.kg) EXCEPT !.order_number = order_number, !.status = status,
                            !.due_date = input.due_date,
                            !.category_id = input.category_id,
                            !.packaging_option_id = input.packaging_option_id,
                            !.quantity = input.quantity]

\* upsertOrder without id, up to its first insert.
upsertOrderBegin(seed, input) ==
    LET resolvedWeightKg == upsertOrderWeight({}, NoNumber, input.kg)
        orderNumbers == buildOrderNumbers(seed, input.premade.selected)
        locals == [NoPlacing EXCEPT !.via = "admin", !.input = input]
    IN /\ placing.pc \in {"idle", "done"}
       /\ UNCHANGED <<today, tables, inflight, blocksView, views, refunds, quote_blocks, checkout_page>>
       /\ IF resolvedWeightKg <= 0
          THEN placingEnds(locals, "weight_required") /\ UNCHANGED order_seq
          ELSE IF resolvedWeightKg > MaxTotalKg
          THEN placingEnds(locals, "max_total_kg") /\ UNCHANGED order_seq
          ELSE /\ orderNumbers.generated => order_seq < MaxSeq
               /\ order_seq' = IF orderNumbers.generated THEN order_seq + 1 ELSE order_seq
               /\ placing' = [locals EXCEPT
                                 !.pc = "insert",
                                 !.payload = candidate(input, orderNumbers.customOrderNumber,
                                                       "pending"),
                                 !.label = TRUE,
                                 !.premadeOrderNumber = orderNumbers.premadeOrderNumber]
               /\ last' = NoOutcome

\* POST of the public order placement, up to its first insert.
placeOrderBegin(orderNumber, input) ==
    LET seeded == normalizeBaseOrderNumber(orderNumber)
        order_number == IF seeded /= NoOrderNumber THEN seeded ELSE generateOrderNumber
        locals == [NoPlacing EXCEPT !.via = "public", !.input = input]
    IN /\ placing.pc \in {"idle", "done"}
       /\ UNCHANGED <<today, tables, inflight, blocksView, views, refunds, quote_blocks, checkout_page>>
       /\ IF input.kg <= 0
          THEN placingEnds(locals, "weight_required") /\ UNCHANGED order_seq
          ELSE IF input.kg > MaxTotalKg
          THEN placingEnds(locals, "max_total_kg") /\ UNCHANGED order_seq
          ELSE /\ seeded = NoOrderNumber => order_seq < MaxSeq
               /\ order_seq' = IF seeded = NoOrderNumber THEN order_seq + 1 ELSE order_seq
               /\ IF input.due_date /= NoDate /\ isDateBlocked(input.due_date, quote_blocks)
                  THEN placingEnds(locals, "date_unavailable")
                  ELSE /\ placing' = [locals EXCEPT
                                         !.pc = "insert",
                                         !.payload = candidate(input, order_number, "pending"),
                                         !.label = TRUE]
                       /\ last' = NoOutcome

\* One pass of the insert loop of either handler.
insertAttempt ==
    LET via == placing.via
        tried == [placing EXCEPT !.inserts = placing.inserts + 1]
        \* continue: the next pass, or the end of the loop without a row
        Continue(locals) ==
            IF locals.attempt + 1 < MaxAttempts
            THEN /\ placing' = [locals EXCEPT !.attempt = locals.attempt + 1]
                 /\ last' = last
            ELSE placingEnds([locals EXCEPT !.attempt = locals.attempt + 1],
                             IF isOrderNumberConflict(locals.insertError)
                             THEN "conflict_exhausted" ELSE "insert_error")
    IN /\ placing.pc = "insert"
       /\ UNCHANGED <<today, production_slots, order_slots, inflight, blocksView, views, refunds,
                      quote_blocks, checkout_page>>
       /\ \E error \in InsertErrors(orders, <<placing.payload>>, placing.label) :
             IF error = NoError
             THEN /\ orders' = insertRows(orders, <<placing.payload>>)
                  /\ UNCHANGED order_seq
                  /\ IF via = "admin" /\ placing.input.premade.selected
                     THEN /\ placing' = [tried EXCEPT !.pc = "sibling", !.insertError = NoError]
                          /\ last' = last
                     ELSE placingEnds([tried EXCEPT !.insertError = NoError], "ok")
             ELSE IF retriesWithoutLabel(via, error)
             THEN /\ UNCHANGED <<orders, order_seq>>
                  /\ Continue([tried EXCEPT !.label = FALSE, !.insertError = error])
             ELSE IF isOrderNumberConflict(error)
             THEN /\ order_seq < MaxSeq
                  /\ order_seq' = order_seq + 1
                  /\ UNCHANGED orders
                  /\ Continue([tried EXCEPT
                                  !.payload.order_number =
                                      [generateOrderNumber EXCEPT
                                          !.suffix = placing.payload.order_number.suffix],
                                  !.premadeOrderNumber =
                                      IF placing.premadeOrderNumber = NoOrderNumber
                                      THEN NoOrderNumber
                                      ELSE [generateOrderNumber EXCEPT !.suffix = "b"],
                                  !.insertError = error])
             ELSE /\ UNCHANGED <<orders, order_seq>>
                  /\ placingEnds([tried EXCEPT !.insertError = error], "insert_error")

\* The premade selection of an admin order: its candy looked up, its
\* weight checked, its row inserted under the sibling number.
premadeValidation(premade) ==
    IF ~premade.found THEN "premade_unavailable"
    ELSE IF premade.kg <= 0 THEN "premade_weight_required"
    ELSE IF premade.kg > MaxTotalKg THEN "max_total_kg"
    ELSE "ok"

premadePayload(input, premadeOrderNumber) ==
    [Order(input.premade.kg) EXCEPT !.order_number = premadeOrderNumber,
                                    !.due_date = input.due_date,
                                    !.quantity = 1,
                                    !.design_type = "premade"]

insertPremade ==
    LET v == premadeValidation(placing.input.premade)
        row == premadePayload(placing.input, placing.premadeOrderNumber)
    IN /\ placing.pc = "sibling"
       /\ UNCHANGED <<today, production_slots, order_slots, inflight, blocksView, views, refunds,
                      quote_blocks, checkout_page, order_seq>>
       /\ IF v /= "ok"
          THEN placingEnds(placing, v) /\ UNCHANGED orders
          ELSE \E error \in InsertErrors(orders, <<row>>, FALSE) :
                  IF error = NoError
                  THEN /\ orders' = insertRows(orders, <<row>>)
                       /\ placingEnds([placing EXCEPT !.inserts = placing.inserts + 1], "ok")
                  ELSE /\ UNCHANGED orders
                       /\ placingEnds([placing EXCEPT !.inserts = placing.inserts + 1,
                                                      !.insertError = error], "insert_error")

\* ------------------------------------------------------ the checkout routes
\* A cart holds at most one custom item and one premade item.  A package of
\* the packaging option weighs one kilogram.
hasCustom(cart) == cart.category_id /= None \/ cart.packaging_option_id /= None
                      \/ cart.quantity /= NoNumber

\* What calculatePricing throws for, "ok" otherwise.
calculatePricing(cart) ==
    IF cart.quantity = NoNumber \/ cart.quantity <= 0 THEN "quantity_invalid"
    ELSE IF cart.quantity > MaxPackages THEN "quantity_over_max"
    ELSE "ok"

\* The first failure of buildWooOrderContext and whether the order number
\* had been generated by then; "ok" with the payloads otherwise.
buildWooOrderContext(cart) ==
    LET custom == hasCustom(cart)
        premade == cart.premade.selected
        base == generateOrderNumber
        customOrderNumber == IF custom /\ premade THEN [base EXCEPT !.suffix = "a"] ELSE base
        premadeOrderNumber == IF custom /\ premade THEN [base EXCEPT !.suffix = "b"] ELSE base
        customRow == candidate([cart EXCEPT !.kg = cart.quantity], customOrderNumber,
                               "pending_payment")
        premadeRow == IF premade
                      THEN [premadePayload(cart, premadeOrderNumber)
                               EXCEPT !.status = "pending_payment"]
                      ELSE Order(0)
        result(error, generated) ==
            [error |-> error, generated |-> generated,
             orderPayloads |-> (IF custom THEN <<customRow>> ELSE <<>>)
                                  \o (IF premade THEN <<premadeRow>> ELSE <<>>)]
    IN IF ~custom /\ ~premade THEN result("cart_empty", FALSE)
       ELSE IF custom /\ (cart.category_id = None \/ cart.packaging_option_id = None)
       THEN result("missing_category_or_packaging", TRUE)
       ELSE IF custom /\ calculatePricing(cart) /= "ok"
       THEN result(calculatePricing(cart), TRUE)
       ELSE IF premade /\ ~cart.premade.found THEN result("premade_not_found", TRUE)
       ELSE result("ok", TRUE)

\* The columns a route adds to the payloads before the insert.
enrichedPayload(via, payload) ==
    IF via = "woo" THEN payload
    ELSE [payload EXCEPT !.status = "pending",
                         !.payment_provider = IF via \in {"square", "paypal"} THEN via
                                              ELSE None,
                         !.payment_transaction_id = IF via \in {"square", "paypal"} THEN "t1"
                                                    ELSE None]

\* A checkout route: the context, the payment, the Woo order, the insert.
\* charged and wooCreated say whether the provider and WooCommerce accepted.
checkoutRoute(via, cart, charged, wooCreated) ==
    LET context == buildWooOrderContext(cart)
        rows == [i \in 1..Len(context.orderPayloads) |->
                    enrichedPayload(via, context.orderPayloads[i])]
        locals == [NoPlacing EXCEPT !.via = via, !.input = cart]
    IN /\ placing.pc \in {"idle", "done"}
       /\ UNCHANGED <<today, production_slots, order_slots, inflight, blocksView, views, refunds,
                      quote_blocks, checkout_page>>
       /\ context.generated => order_seq < MaxSeq
       /\ order_seq' = IF context.generated THEN order_seq + 1 ELSE order_seq
       /\ IF context.error /= "ok"
          THEN placingEnds(locals, context.error) /\ UNCHANGED orders
          ELSE IF via \in {"square", "paypal"} /\ ~charged
          THEN placingEnds(locals, "payment_failed") /\ UNCHANGED orders
          ELSE IF ~wooCreated
          THEN placingEnds(locals, "woo_failed") /\ UNCHANGED orders
          ELSE \E error \in InsertErrors(orders, rows, FALSE) :
                  /\ orders' = IF error = NoError THEN insertRows(orders, rows) ELSE orders
                  /\ placingEnds([locals EXCEPT !.inserts = 1, !.insertError = error], "ok")

\* The checkout page: the blocks it was rendered with, and the fields it
\* asks for before it submits.
loadCheckoutPage ==
    /\ checkout_page' = quote_blocks
    /\ UNCHANGED <<schedule, last, blocksView, views, refunds, quote_blocks, order_seq, placing>>

isDueDateBlocked(dueDate, quoteBlocks) == dueDate /= NoDate /\ isDateBlocked(dueDate, quoteBlocks)

getMissingFields(cart, quoteBlocks) ==
    (IF hasCustom(cart) /\ cart.due_date = NoDate THEN {"date required"} ELSE {})
      \cup (IF hasCustom(cart) /\ isDueDateBlocked(cart.due_date, quoteBlocks)
            THEN {"available date"} ELSE {})

\* ------------------------------------- assignOrderToSlot, call by call
\* The same handler with every store call a step of its own, for requests
\* without assignment_id.  req[p] holds the locals of request p.
NoRequest ==
    [order_id |-> None, slot_id |-> None, slot_date |-> NoDate, slot_index |-> NoIndex,
     kg_assigned |-> 0, total_weight_kg |-> 0, resolved |-> None,
     slotRows |-> <<>>, slotFirst |-> None, existing |-> None]

Snapshot(rows, ids) == [r \in ids |-> [kg_assigned |-> rows[r].kg_assigned]]

Fail(p, result) ==
    /\ started' = started
    /\ last' = Outcome("assign", result, req[p].order_id, None, None, NoDate, 0, None)
    /\ pc' = [pc EXCEPT ![p] = "idle"]
    /\ req' = [req EXCEPT ![p] = NoRequest]

Goto(p, label, locals) ==
    /\ started' = started
    /\ pc' = [pc EXCEPT ![p] = label]
    /\ req' = [req EXCEPT ![p] = locals]
    /\ last' = last

\* The locals once the slot is resolved: the request's slot fields are not
\* read again.
Resolved(locals, resolvedSlotId) ==
    [locals EXCEPT !.resolved = resolvedSlotId, !.slot_id = None, !.slot_date = NoDate,
                   !.slot_index = NoIndex]

cBegin(p, order_id, slot_id, slot_date, slot_index, kg_assigned) ==
    LET v == assignValidation(order_id, slot_id, slot_date, slot_index, kg_assigned)
    IN /\ pc[p] = "idle"
       /\ started < MaxRequests
       /\ started' = started + 1
       /\ UNCHANGED <<today, tables, aux>>
       /\ IF v /= "ok"
          THEN /\ last' = Outcome("assign", v, order_id, None, None, NoDate, 0, None)
               /\ UNCHANGED <<pc, req>>
          ELSE /\ pc' = [pc EXCEPT ![p] = "order"]
               /\ req' = [req EXCEPT ![p] =
                             [NoRequest EXCEPT !.order_id = order_id, !.slot_id = slot_id,
                                               !.slot_date = slot_date,
                                               !.slot_index = slot_index,
                                               !.kg_assigned = kg_assigned,
                                               !.resolved = slot_id]]
               /\ last' = last

cReadOrder(p) ==
    /\ pc[p] = "order"
    /\ UNCHANGED <<today, tables, aux>>
    /\ IF req[p].order_id \notin DOMAIN orders
       THEN Fail(p, "order_error")
       ELSE LET locals == [req[p] EXCEPT !.total_weight_kg =
                                            orders[req[p].order_id].total_weight_kg]
            IN IF req[p].slot_id = None THEN Goto(p, "lookup", locals)
               ELSE IF req[p].slot_date = NoDate THEN Goto(p, "slotdate", locals)
               ELSE Goto(p, "slotrows", Resolved(locals, locals.resolved))

cLookupSlot(p) ==
    LET matches == existingSlot(production_slots, req[p].slot_date, req[p].slot_index)
    IN /\ pc[p] = "lookup"
       /\ UNCHANGED <<today, tables, aux>>
       /\ IF Cardinality(matches) > 1
          THEN Fail(p, "slot_lookup_error")
          ELSE IF matches = {}
          THEN Goto(p, "create", req[p])
          ELSE Goto(p, "slotrows", Resolved(req[p], CHOOSE s \in matches : TRUE))

cCreateSlot(p) ==
    LET created == NewId(SlotIds, DOMAIN production_slots)
    IN /\ pc[p] = "create"
       /\ Cardinality(DOMAIN production_slots) < MaxSlots
       /\ production_slots' =
              Extend(production_slots, created, createdSlot(req[p].slot_date, req[p].slot_index))
       /\ UNCHANGED <<today, orders, order_slots, aux>>
       /\ Goto(p, "slotrows", Resolved(req[p], created))

cReadSlotDate(p) ==
    /\ pc[p] = "slotdate"
    /\ UNCHANGED <<today, tables, aux>>
    /\ IF storedDatePast(production_slots, req[p].slot_date, req[p].resolved)
       THEN Fail(p, "past_date_slot")
       ELSE Goto(p, "slotrows", Resolved(req[p], req[p].resolved))

cReadSlotAssignments(p) ==
    LET slotAssignments == slotAssignmentsOf(order_slots, req[p].resolved)
    IN /\ pc[p] = "slotrows"
       /\ UNCHANGED <<today, tables, aux>>
       /\ \E slotFirst \in FirstOf(slotAssignments) :
             Goto(p, "orderrows",
                  [req[p] EXCEPT !.slotRows = Snapshot(order_slots, slotAssignments),
                                 !.slotFirst = slotFirst])

\* The second read, and the checks computed from the two reads.
cReadOrderAssignments(p) ==
    LET orderAssignments == orderAssignmentsOf(order_slots, req[p].order_id)
        slotAssignments == DOMAIN req[p].slotRows
    IN /\ pc[p] = "orderrows"
       /\ UNCHANGED <<today, tables, aux>>
       /\ \E existingOrderAssignment \in FirstOf(orderAssignments) :
             LET previous == previousForAssignment(order_slots, None, slotAssignments,
                                                   existingOrderAssignment)
             IN IF orderUsed(order_slots, orderAssignments, previous, req[p].kg_assigned)
                       > req[p].total_weight_kg
                THEN Fail(p, "exceeds_weight")
                ELSE IF slotTaken(slotAssignments, req[p].slotFirst, None,
                                  existingOrderAssignment)
                THEN Fail(p, "slot_taken")
                ELSE Goto(p, "write", [req[p] EXCEPT !.existing = existingOrderAssignment,
                                                     !.total_weight_kg = 0,
                                                     !.slotFirst = None])

cWrite(p) ==
    /\ pc[p] = "write"
    /\ insertsRow(None, req[p].existing) => Cardinality(DOMAIN order_slots) < MaxRows
    /\ order_slots' = writeAssignment(order_slots, None, req[p].existing, req[p].order_id,
                                      req[p].resolved, req[p].kg_assigned)
    /\ UNCHANGED <<today, orders, production_slots, aux>>
    /\ Goto(p, "status", [NoRequest EXCEPT !.order_id = req[p].order_id])

cSetStatus(p) ==
    /\ pc[p] = "status"
    /\ orders' = setScheduled(orders, req[p].order_id)
    /\ UNCHANGED <<today, production_slots, order_slots, aux>>
    /\ last' = Outcome("assign", "ok", req[p].order_id, None, None, NoDate, 0, None)
    /\ pc' = [pc EXCEPT ![p] = "idle"]
    /\ req' = [req EXCEPT ![p] = NoRequest]
    /\ started' = started

\* ---------------------------------------------------- the request inputs
WeightGInputs == {NoNumber} \cup {1000 * k : k \in 0..(MaxTotalKg + 1)}
WeightKgInputs == {NoNumber} \cup (0..(MaxTotalKg + 1))
KgInputs == 0..MaxTotalKg
SlotDateInputs == {NoDate} \cup DateKeys
SlotIndexInputs == {NoIndex, 1}

\* An identifier the table does not hold (a stale or foreign one).
Unknown(pool, used) == IF pool \subseteq used THEN {} ELSE {NewId(pool, used)}

\* Fields that the handler never reads for this request are left empty.
AssignRequest(assignmentId, order_id, slot_id, slot_date, slot_index, kg_assigned) ==
    /\ order_id = None =>
          assignmentId = None /\ slot_id = None /\ slot_date = NoDate
              /\ slot_index = NoIndex /\ kg_assigned = 0
    /\ slot_id /= None => slot_index = NoIndex
    /\ kg_assigned = 0 => assignmentId = None

DoUpsertOrder ==
    \E id \in {None} \cup DOMAIN orders \cup Unknown(OrderIds, DOMAIN orders),
       g \in WeightGInputs, kg \in WeightKgInputs :
        /\ (g = NoNumber \/ kg = NoNumber)
        /\ upsertOrder(id, g, kg, None)

DoUpsertSlot ==
    \E id \in {None} \cup DOMAIN production_slots, capacity_kg \in KgInputs,
       slot_date \in SlotDateInputs :
        upsertSlot(id, slot_date, capacity_kg, None)

\* Any form of the request, assignment_id included.
DoAssign ==
    \E assignmentId \in {None} \cup DOMAIN order_slots \cup Unknown(RowIds, DOMAIN order_slots),
       order_id \in {None} \cup DOMAIN orders,
       slot_id \in {None} \cup DOMAIN production_slots, slot_date \in SlotDateInputs,
       slot_index \in SlotIndexInputs, kg_assigned \in KgInputs :
        /\ AssignRequest(assignmentId, order_id, slot_id, slot_date, slot_index, kg_assigned)
        /\ assignOrderToSlot(assignmentId, order_id, slot_id, slot_date, slot_index, kg_assigned)

\* The request as the schedule page sends it, or with a slot_id instead.
DoAssignNew ==
    \E order_id \in {None} \cup DOMAIN orders,
       slot_id \in {None} \cup DOMAIN production_slots, slot_date \in SlotDateInputs,
       slot_index \in SlotIndexInputs, kg_assigned \in KgInputs :
        /\ AssignRequest(None, order_id, slot_id, slot_date, slot_index, kg_assigned)
        /\ assignOrderToSlot(None, order_id, slot_id, slot_date, slot_index, kg_assigned)

DoDelete ==
    \E assignmentId \in {None} \cup DOMAIN order_slots \cup Unknown(RowIds, DOMAIN order_slots) :
        deleteAssignment(assignmentId)

\* The rows of a table in some order: a select without ORDER BY.
Orderings(ids) ==
    {o \in [1..Cardinality(ids) -> ids] : \A i, j \in 1..Cardinality(ids) : o[i] = o[j] => i = j}

DoAddOpenOverride == \E date \in SlotDateInputs : addOpenOverride(date)

DoAddManualBlock == \E date \in SlotDateInputs : addManualBlock(date)

DoRemoveManualBlock == \E date \in SlotDateInputs : removeManualBlock(date)

DoRenderDay ==
    \E day \in Days, o \in Orderings(DOMAIN production_blocks) :
        RenderDay(day, [i \in 1..Cardinality(DOMAIN production_blocks) |-> production_blocks[o[i]]])

AmountInputs == {NoNumber, 0, 1}

\* A refund requested from the admin page (no amount) or through the route.
DoRefund ==
    \E via \in {"action", "route"},
       id \in {None} \cup DOMAIN orders \cup Unknown(OrderIds, DOMAIN orders),
       body_amount \in AmountInputs :
        /\ via = "action" => body_amount = NoNumber
        /\ rBegin(via, id, body_amount)

\* The order number typed into a form, if any.
SeedInputs == {NoOrderNumber} \cup [base : 1..MaxSeq, suffix : {"", "a"}]

PremadeInputs == {NoPremade} \cup [selected : {TRUE}, found : BOOLEAN, kg : {0, 1, MaxTotalKg + 1}]

\* A well-formed custom order of one package wanted on due_date.
ValidInput(due_date) ==
    [kg |-> 1, category_id |-> "branded", packaging_option_id |-> "jar", quantity |-> 1,
     due_date |-> due_date, premade |-> NoPremade]

\* The forms that differ from form in at most one field.
Variations(form) ==
    {input \in [kg : {NoNumber, 0, 1, MaxTotalKg + 1}, category_id : {None, "branded"},
                packaging_option_id : {None, "jar"},
                quantity : {NoNumber, 1, MaxPackages + 1},
                due_date : {NoDate}, premade : PremadeInputs] :
        Cardinality({f \in DOMAIN form : input[f] /= form[f]}) <= 1}

\* Any order form: well-formed, or with one field missing or out of range.
OrderInputs == Variations(ValidInput(NoDate))

\* Any cart: the weight of a cart is priced, not sent.
CartInputs ==
    {cart \in Variations([ValidInput(NoDate) EXCEPT !.kg = NoNumber]) : cart.kg = NoNumber}

CheckoutRoutes == {"woo", "square", "paypal", "woo_paid"}

\* An order created with or without a number of the caller's choosing.
DoCreateNumbered ==
    \E via \in {"admin", "public"}, seed \in SeedInputs :
        /\ Cardinality(DOMAIN orders) < MaxPlaced
        /\ IF via = "admin" THEN upsertOrderBegin(seed, ValidInput(NoDate))
           ELSE placeOrderBegin(seed, ValidInput(NoDate))

\* A well-formed cart paid through Square.
DoPayNumbered ==
    /\ Cardinality(DOMAIN orders) < MaxPlaced
    /\ checkoutRoute("square", [ValidInput(NoDate) EXCEPT !.kg = NoNumber], TRUE, TRUE)

DoAddQuoteBlock ==
    \E start_date \in SlotDateInputs, end_date \in SlotDateInputs :
        /\ Cardinality(DOMAIN quote_blocks) < MaxQuoteBlocks
        /\ addQuoteBlock(start_date, end_date)

DoRemoveQuoteBlock == \E id \in DOMAIN quote_blocks : removeQuoteBlock(id)

\* The public placement of a well-formed order for some date.
DoPlaceOrder ==
    \E due_date \in SlotDateInputs :
        /\ Cardinality(DOMAIN orders) < MaxOrders
        /\ placeOrderBegin(NoOrderNumber, ValidInput(due_date))

\* The checkout page submits a well-formed cart once nothing is missing.
DoCheckout ==
    \E via \in CheckoutRoutes, due_date \in SlotDateInputs, charged \in BOOLEAN :
        LET cart == [ValidInput(due_date) EXCEPT !.kg = NoNumber]
        IN /\ Cardinality(DOMAIN orders) < MaxOrders
           /\ getMissingFields(cart, checkout_page) = {}
           /\ checkoutRoute(via, cart, charged, TRUE)

\* Any form sent to the admin action or the public route.
DoCreateAny ==
    \E via \in {"admin", "public"}, input \in OrderInputs :
        /\ Cardinality(DOMAIN orders) < MaxOrders
        /\ via = "public" => ~input.premade.selected
        /\ IF via = "admin" THEN upsertOrderBegin(NoOrderNumber, input)
           ELSE placeOrderBegin(NoOrderNumber, input)

\* Any cart sent to a checkout route.
DoCheckoutAny ==
    \E via \in CheckoutRoutes, cart \in CartInputs, charged \in BOOLEAN, wooCreated \in BOOLEAN :
        /\ Cardinality(DOMAIN orders) < MaxOrders
        /\ charged \/ wooCreated
        /\ checkoutRoute(via, cart, charged, wooCreated)


DoArchive == \E orderId \in DOMAIN orders : archiveOrder(orderId)

DoUnarchive == \E orderId \in DOMAIN orders : unarchiveOrder(orderId)

DoMarkShipped == \E orderId \in DOMAIN orders : markAdditionalItemShipped(orderId)

DoMarkManyShipped == \E orderIds \in SUBSET DOMAIN orders : markAdditionalItemsShipped(orderIds)

\* An existing assignment edited in place: its row id, its slot, any order.
DoReassign ==
    \E assignmentId \in DOMAIN order_slots, order_id \in DOMAIN orders, kg_assigned \in KgInputs :
        /\ kg_assigned /= 0
        /\ assignOrderToSlot(assignmentId, order_id, order_slots[assignmentId].slot_id,
                             NoDate, NoIndex, kg_assigned)

\* Cart items: a jacket, and the extras list the designer stored with it, if
\* it stored one.
ExtrasLists == {<<>>, <<"rainbow">>, <<"two_colour", "pinstripe">>}

CartItems == [jacket : Jackets, jacketExtras : ExtrasLists, quantity : 1..MaxPackages]

SettingsInputs ==
    {PricingSettings(0, 3, 0), PricingSettings(10, 3, 0), PricingSettings(10, 0, 10)}

DueDateInputs == {NoNumber} \cup {today + d : d \in {0, 1, 3, 4, 10}}

DoAdminPagePricing ==
    \E order \in CartItems, due \in DueDateInputs :
        /\ order.jacketExtras = <<>>
        /\ adminPagePricing(order @@ [due_date |-> due], priced.settings)

DoFetchPricing ==
    \E item \in CartItems, date \in DueDateInputs :
        fetchPricing(item, date, priced.settings)

DoBuildCustomItemLine ==
    \E item \in CartItems, dueDate \in DueDateInputs :
        buildCustomItemLine(postedItem(item), dueDate, priced.settings)

WooStatuses == {None, "processing", "completed"}

DoWebhook ==
    \E signed \in BOOLEAN, id \in {None, "w1", "w2"}, status \in WooStatuses,
       date_paid \in {NoDate} \cup DateKeys :
        wooWebhook(signed, id, status, date_paid)

PremadePrice == [cents |-> 450]

CartEntries ==
    {[type |-> "custom", jacket |-> i.jacket, jacketExtras |-> i.jacketExtras,
      quantity |-> i.quantity, price |-> 0] :
        i \in {c \in CartItems : c.jacket \in {None, "rainbow"} /\ Len(c.jacketExtras) <= 1}}
    \cup {[type |-> "premade", jacket |-> None, jacketExtras |-> <<>>, quantity |-> q,
           price |-> PremadePrice.cents] : q \in 1..MaxPackages}

DoAddToCart == \E item \in CartEntries : Len(checkout_cart.items) < MaxCart /\ addToCart(item)

DoOpenCheckout == openCheckout(priced.settings)

DoSquarePayment == squarePayment(priced.settings)

ClientIps == {"ip1", "ip2"}

DoLimitedRequest == \E ip \in ClientIps : limitedRequest(ip)

DoElapse == \E ms \in 1..2 : elapse(ms)

DoSchedulePage == \E o \in Orderings(DOMAIN order_slots) : SchedulePage(o)

DoAllOrdersPage == \E o \in Orderings(DOMAIN order_slots) : AllOrdersPage(o)

\* ----------------------------------------------------- the specifications
TwoOrders == [o \in {"A", "B"} |-> IF o = "A" THEN Order(1) ELSE Order(MaxTotalKg)]

\* The settings row with production switched off on the given weekdays.
WeekSettings(off) ==
    [no_production_sun |-> 0 \in off, no_production_mon |-> 1 \in off,
     no_production_tue |-> 2 \in off, no_production_wed |-> 3 \in off,
     no_production_thu |-> 4 \in off, no_production_fri |-> 5 \in off,
     no_production_sat |-> 6 \in off]

\* Everything but the orders table and what the pages show.
InitBase ==
    /\ today = FirstDay
    /\ production_slots = <<>>
    /\ order_slots = <<>>
    /\ last = NoOutcome
    /\ pc = [p \in Procs |-> "idle"]
    /\ req = [p \in Procs |-> NoRequest]
    /\ started = 0
    /\ production_blocks = <<>>
    /\ settings = WeekSettings({})
    /\ calendar = NoCalendar
    /\ refund = NoRefund
    /\ provider_refunds = {}
    /\ quote_blocks = <<>>
    /\ checkout_page = <<>>
    /\ order_seq = 0
    /\ placing = NoPlacing

InitCommon == InitBase /\ InitViews

\* Scheduling of two placed orders: every form of assign, and unassign.
Init ==
    /\ InitCommon
    /\ orders = TwoOrders

Next ==
    \/ DoAssign
    \/ DoDelete

Spec == Init /\ [][Next]_vars

\* Scheduling over several days, slots created on demand.
NextDays ==
    \/ DoAssignNew
    \/ DoDelete
    \/ AdvanceDay

SpecDays == Init /\ [][NextDays]_vars

\* Two admin requests in flight at once, each as the schedule page sends it
\* (a date and an index, the order's whole weight) or naming a slot by id.
DoBegin ==
    \E p \in Procs, order_id \in DOMAIN orders,
       slot_id \in {None} \cup DOMAIN production_slots, slot_date \in SlotDateInputs :
        /\ (slot_id = None) /= (slot_date = NoDate)
        /\ cBegin(p, order_id, slot_id, slot_date,
                  IF slot_id = None THEN 1 ELSE NoIndex, orders[order_id].total_weight_kg)

NextConc ==
    \/ DoBegin
    \/ \E p \in Procs : cReadOrder(p)
    \/ \E p \in Procs : cLookupSlot(p)
    \/ \E p \in Procs : cCreateSlot(p)
    \/ \E p \in Procs : cReadSlotDate(p)
    \/ \E p \in Procs : cReadSlotAssignments(p)
    \/ \E p \in Procs : cReadOrderAssignments(p)
    \/ \E p \in Procs : cWrite(p)
    \/ \E p \in Procs : cSetStatus(p)

SpecConc == Init /\ [][NextConc]_vars

\* The admin edits slots between assignments.
NextSlotEdit ==
    \/ DoUpsertSlot
    \/ DoAssignNew
    \/ DoDelete

SpecSlotEdit == Init /\ [][NextSlotEdit]_vars

\* The admin creates and edits orders between assignments.
InitOrderEdit ==
    /\ InitCommon
    /\ orders = <<>>

NextOrderEdit ==
    \/ DoUpsertOrder
    \/ DoAssignNew
    \/ DoDelete

SpecOrderEdit == InitOrderEdit /\ [][NextOrderEdit]_vars

\* The admin blocks and unblocks single dates of the calendar.
NextBlocks ==
    \/ DoAddOpenOverride
    \/ DoAddManualBlock
    \/ DoRemoveManualBlock

SpecBlocks == Init /\ [][NextBlocks]_vars

\* The calendar view over any production_blocks rows and weekly settings.
ReasonInputs == {OPEN_OVERRIDE_REASON, MANUAL_BLOCK_REASON, " open override ", "Holiday", ""}

BlockRowInputs ==
    {b \in [start_date : DateKeys, end_date : DateKeys, reason : ReasonInputs] :
        ~StrLess(b.end_date, b.start_date)}

\* The ids of a table that k inserts have filled.
RECURSIVE FirstIds(_, _)
FirstIds(pool, k) ==
    IF k = 0 THEN {}
    ELSE LET before == FirstIds(pool, k - 1) IN before \cup {NewId(pool, before)}

BlockTables == UNION {[FirstIds(BlockIds, k) -> BlockRowInputs] : k \in 0..MaxBlocks}

InitCalendar ==
    /\ today = FirstDay
    /\ orders = TwoOrders
    /\ production_slots = <<>>
    /\ order_slots = <<>>
    /\ last = NoOutcome
    /\ pc = [p \in Procs |-> "idle"]
    /\ req = [p \in Procs |-> NoRequest]
    /\ started = 0
    /\ production_blocks \in BlockTables
    /\ settings \in {WeekSettings(off) : off \in SUBSET {Weekday(d) : d \in Days}}
    /\ calendar = NoCalendar
    /\ refund = NoRefund
    /\ provider_refunds = {}
    /\ quote_blocks = <<>>
    /\ checkout_page = <<>>
    /\ order_seq = 0
    /\ placing = NoPlacing
    /\ InitViews

NextCalendar == DoRenderDay

SpecCalendar == InitCalendar /\ [][NextCalendar]_vars

\* Refunds of the two orders of a combined cart: they share the base order
\* number, the payment and the customer.
PaidOrder(suffix, total_price, payment_provider, payment_transaction_id, customer_email, woo_order_id) ==
    [Order(1) EXCEPT !.order_number = [base |-> 1, suffix |-> suffix],
                     !.total_price = total_price,
                     !.payment_provider = payment_provider,
                     !.payment_transaction_id = payment_transaction_id,
                     !.customer_email = customer_email,
                     !.woo_order_id = woo_order_id]

InitRefund ==
    /\ today = FirstDay
    /\ production_slots = <<>>
    /\ order_slots = <<>>
    /\ last = NoOutcome
    /\ pc = [p \in Procs |-> "idle"]
    /\ req = [p \in Procs |-> NoRequest]
    /\ started = 0
    /\ production_blocks = <<>>
    /\ settings = WeekSettings({})
    /\ calendar = NoCalendar
    /\ refund = NoRefund
    /\ provider_refunds = {}
    /\ quote_blocks = <<>>
    /\ checkout_page = <<>>
    /\ order_seq = 0
    /\ placing = NoPlacing
    /\ InitViews
    /\ \E total_price \in AmountInputs, payment_provider \in {None, "square", "paypal", "other"},
          payment_transaction_id \in {None, "t1"}, customer_email \in {None, "customer"},
          woo_order_id \in {None, "w1"} :
          orders = [o \in {"A", "B"} |->
                       IF o = "A"
                       THEN PaidOrder("a", total_price, payment_provider,
                                      payment_transaction_id, customer_email, woo_order_id)
                       ELSE PaidOrder("b", 1, payment_provider,
                                      payment_transaction_id, customer_email, woo_order_id)]

NextRefund ==
    \/ DoRefund
    \/ rProvider
    \/ rUpdate
    \/ rWoo
    \/ rEmail
    \/ rRespond

SpecRefund == InitRefund /\ [][NextRefund]_vars

\* Orders created under typed or generated numbers.
InitPlace ==
    /\ InitCommon
    /\ orders = <<>>

NextNumbers ==
    \/ DoCreateNumbered
    \/ DoPayNumbered
    \/ insertAttempt

SpecNumbers == InitPlace /\ [][NextNumbers]_vars

\* Customers check out while the admin blocks and unblocks dates.
NextCheckout ==
    \/ DoAddQuoteBlock
    \/ DoRemoveQuoteBlock
    \/ loadCheckoutPage
    \/ DoPlaceOrder
    \/ DoCheckout
    \/ insertAttempt

SpecCheckout == InitPlace /\ [][NextCheckout]_vars

\* Any order form or cart, well-formed or not.
NextInput ==
    \/ DoCreateAny
    \/ DoCheckoutAny
    \/ insertAttempt
    \/ insertPremade

SpecInput == InitPlace /\ [][NextInput]_vars

\* The admin archives, ships and schedules a custom order and the premade
\* order sold with it.
InitShip ==
    /\ InitCommon
    /\ orders = [o \in {"A", "B"} |->
                    IF o = "A" THEN Order(1)
                    ELSE [Order(1) EXCEPT !.design_type = "premade"]]

NextShip ==
    \/ DoArchive
    \/ DoUnarchive
    \/ DoMarkShipped
    \/ DoMarkManyShipped
    \/ DoAssignNew
    \/ DoDelete

SpecShip == InitShip /\ [][NextShip]_vars

\* The admin schedules and archives over two days, then looks at both pages.
Viewing == shown.schedule.rendered \/ shown.all.rendered

NextPages ==
    \/ ~Viewing /\ DoAssignNew
    \/ ~Viewing /\ DoReassign
    \/ ~Viewing /\ DoDelete
    \/ ~Viewing /\ DoArchive
    \/ ~Viewing /\ AdvanceDay
    \/ DoSchedulePage
    \/ DoAllOrdersPage

SpecPages == Init /\ [][NextPages]_vars

\* Custom items priced by the admin page, the checkout page and the routes.
NextPricing ==
    \/ DoAdminPagePricing
    \/ DoFetchPricing
    \/ DoBuildCustomItemLine
    \/ AdvanceDay

InitPricing ==
    /\ InitBase
    /\ orders = <<>>
    /\ shown = [schedule |-> NoPage, all |-> NoPage]
    /\ priced \in {NoPriced(s) : s \in SettingsInputs}
    /\ InitFront

SpecPricing == InitPricing /\ [][NextPricing]_vars

\* An order awaiting payment in WooCommerce and one paid there, scheduled and
\* archived by the admin while WooCommerce delivers its webhooks.
InitWebhook ==
    /\ InitCommon
    /\ orders = [o \in {"A", "B"} |->
                    IF o = "A"
                    THEN [Order(1) EXCEPT !.woo_order_id = "w1", !.status = "pending_payment",
                                          !.woo_order_status = "pending"]
                    ELSE [Order(1) EXCEPT !.woo_order_id = "w2", !.paid_at = DateKey(FirstDay),
                                          !.woo_order_status = "processing"]]

\* The admin schedules and archives before WooCommerce starts delivering.
Delivered == last.op = "webhook"

NextWebhook ==
    \/ DoWebhook
    \/ ~Delivered /\ DoAssignNew
    \/ ~Delivered /\ DoArchive

SpecWebhook == InitWebhook /\ [][NextWebhook]_vars

\* A customer with a due date picked fills the cart, opens the checkout page
\* and pays.
InitCart ==
    /\ InitBase
    /\ orders = <<>>
    /\ shown = [schedule |-> NoPage, all |-> NoPage]
    /\ priced \in {NoPriced(s) : s \in SettingsInputs}
    /\ checkout_cart \in {EmptyCart(today + d) : d \in {1, 10}}
    /\ buckets = <<>>
    /\ limits = NoCalls([windowMs |-> 1, max |-> 1])

NextCart ==
    \/ DoAddToCart
    \/ DoOpenCheckout
    \/ DoSquarePayment

SpecCart == InitCart /\ [][NextCart]_vars

\* Two clients send payment requests while time passes.
InitLimits ==
    /\ InitBase
    /\ orders = <<>>
    /\ shown = [schedule |-> NoPage, all |-> NoPage]
    /\ priced = NoPriced(PricingSettings(0, 0, 0))
    /\ checkout_cart = EmptyCart(NoNumber)
    /\ buckets = <<>>
    /\ limits \in {NoCalls([windowMs |-> w, max |-> m]) : w \in 1..2, m \in 1..MaxPerWindow}

NextLimits ==
    \/ DoLimitedRequest
    \/ DoElapse

SpecLimits == InitLimits /\ [][NextLimits]_vars

\* ------------------------------------------------------------- the claims

AssignedKg(o) == SumKg(order_slots, orderAssignmentsOf(order_slots, o))

\* C1: in every state reached by assign and unassign calls, the kg assigned
\* to an order over all its order_slots rows is at most its total_weight_kg.
C1_AssignedWithinWeight ==
    \A o \in DOMAIN orders : AssignedKg(o) <= orders[o].total_weight_kg

\* C2: in every state reached by assign and unassign calls, a slot holds at
\* most one order_slots row (so never rows of two distinct orders).
C2_OneRowPerSlot ==
    \A s \in DOMAIN production_slots :
        Cardinality(slotAssignmentsOf(order_slots, s)) <= 1

\* C10: in every state reached by assign and unassign calls, an order has at
\* most one order_slots row.
C10_OneRowPerOrder ==
    \A o \in DOMAIN orders :
        Cardinality(orderAssignmentsOf(order_slots, o)) <= 1

\* The request is one the handler accepts unless the store state forbids it.
WellFormed(order_id, slot_id, slot_date, slot_index, kg_assigned) ==
    /\ order_id \in DOMAIN orders
    /\ slot_id \in {None} \cup DOMAIN production_slots
    /\ slot_id = None => slot_date /= NoDate /\ slot_index /= NoIndex
    /\ slot_id /= None => slot_index = NoIndex
    /\ kg_assigned > 0

\* The slot the request resolves to is not the one in `except` and is free
\* (or does not exist yet), and is not dated before today.
TargetFree(slot_id, slot_date, slot_index, except) ==
    LET target == IF slot_id /= None THEN {slot_id}
                  ELSE existingSlot(production_slots, slot_date, slot_index)
    IN /\ Cardinality(target) <= 1
       /\ except \notin target
       /\ \A s \in target : slotAssignmentsOf(order_slots, s) = {}
       /\ \A s \in target : ~StrLess(production_slots[s].slot_date, todayKey)
       /\ slot_date /= NoDate => ~StrLess(slot_date, todayKey)

\* This step is the handling of the given request without assignment_id.
AssignStep(o, slot_id, slot_date, slot_index, kg_assigned) ==
    /\ last'.op = "assign"
    /\ last'.order_id = o
    /\ last'.slot_date = slot_date
    /\ assignOrderToSlot(None, o, slot_id, slot_date, slot_index, kg_assigned)

\* The order has exactly one order_slots row, r.
OnlyRow(o, r) == orderAssignmentsOf(order_slots, o) = {r}

\* C4 (as claimed): when order o has k1 kg in slot S1, a further request for
\* o without assignment_id, of k2 kg to a different free slot, with
\* k1 + k2 above the order's weight, is rejected as exceeding the weight and
\* the assignment stays as it was.
C4_FurtherAssignRejected ==
    [][last'.op = "assign" =>
       LET o == last'.order_id
           slot_date == last'.slot_date
       IN \A r \in DOMAIN order_slots,
             slot_id \in {None} \cup DOMAIN production_slots,
             slot_index \in SlotIndexInputs, k2 \in KgInputs :
          ( /\ WellFormed(o, slot_id, slot_date, slot_index, k2)
            /\ OnlyRow(o, r)
            /\ TargetFree(slot_id, slot_date, slot_index, order_slots[r].slot_id)
            /\ order_slots[r].kg_assigned + k2 > orders[o].total_weight_kg
            /\ AssignStep(o, slot_id, slot_date, slot_index, k2) )
          => /\ last'.result = "exceeds_weight"
             /\ order_slots' = order_slots]_vars

\* C4 (amended): in that situation the request is judged on k2 alone.  With
\* k2 within the order's weight it is accepted and the order's single row
\* moves to the new slot with k2 kg, leaving nothing in S1; with k2 above
\* the weight it is rejected and the assignment stays as it was.
C4_FurtherAssignMoves ==
    [][last'.op = "assign" =>
       LET o == last'.order_id
           slot_date == last'.slot_date
       IN \A r \in DOMAIN order_slots,
             slot_id \in {None} \cup DOMAIN production_slots,
             slot_index \in SlotIndexInputs, k2 \in KgInputs :
          ( /\ WellFormed(o, slot_id, slot_date, slot_index, k2)
            /\ OnlyRow(o, r)
            /\ TargetFree(slot_id, slot_date, slot_index, order_slots[r].slot_id)
            /\ AssignStep(o, slot_id, slot_date, slot_index, k2) )
          => IF k2 <= orders[o].total_weight_kg
             THEN /\ last'.result = "ok"
                  /\ DOMAIN order_slots' = DOMAIN order_slots
                  /\ \A x \in DOMAIN order_slots \ {r} : order_slots'[x] = order_slots[x]
                  /\ order_slots'[r] =
                        [order_id |-> o, slot_id |-> last'.resolved, kg_assigned |-> k2]
                  /\ last'.resolved /= order_slots[r].slot_id
                  /\ slotAssignmentsOf(order_slots', order_slots[r].slot_id) = {}
             ELSE /\ last'.result = "exceeds_weight"
                  /\ order_slots' = order_slots]_vars

\* An accepted further assignment whose kg, added to the kg the order had in
\* its previous slot, exceeds the order's weight.
C4_Witness ==
    /\ last.op = "assign" /\ last.result = "ok" /\ last.assignment_id = None
    /\ last.prior_slot /= None /\ last.prior_slot /= last.resolved
    /\ last.prior_kg + last.kg_assigned > orders[last.order_id].total_weight_kg
    /\ slotAssignmentsOf(order_slots, last.prior_slot) = {}

CapacityErrors == {"exceeds_weight", "slot_taken", "past_date_input", "past_date_slot"}

\* C5: a request rejected for a capacity reason (weight exceeded, slot
\* taken, past date) leaves orders, production_slots and order_slots as
\* they were.
C5_RejectionLeavesTablesUnchanged ==
    [][(last'.op = "assign" /\ last'.result \in CapacityErrors) => UNCHANGED tables]_vars

\* C6: an accepted assign request never targets a slot dated before today.
C6_NoWriteToPastSlot ==
    (last.op = "assign" /\ last.result = "ok" /\ last.resolved \in DOMAIN production_slots)
        => ~StrLess(production_slots[last.resolved].slot_date, todayKey)

\* C7: a request dated today, to a free slot and within the order's weight,
\* is accepted and its row written; a request dated yesterday is rejected as
\* a past date whatever the tables hold, and changes none of them.
C7_TodayAcceptedYesterdayRejected ==
    [][last'.op = "assign" =>
       LET o == last'.order_id
       IN \A slot_id \in {None} \cup DOMAIN production_slots,
             slot_index \in SlotIndexInputs, kg \in KgInputs :
          /\ ( /\ last'.slot_date = DateKey(today - 1)
               /\ WellFormed(o, slot_id, DateKey(today - 1), slot_index, kg)
               /\ AssignStep(o, slot_id, DateKey(today - 1), slot_index, kg) )
             => (last'.result = "past_date_input" /\ UNCHANGED tables)
          /\ ( /\ last'.slot_date = todayKey
               /\ WellFormed(o, slot_id, todayKey, slot_index, kg)
               /\ TargetFree(slot_id, todayKey, slot_index, None)
               /\ kg <= orders[o].total_weight_kg
               /\ AssignStep(o, slot_id, todayKey, slot_index, kg) )
             => /\ last'.result = "ok"
                /\ \E r \in DOMAIN order_slots' :
                      order_slots'[r] =
                          [order_id |-> o, slot_id |-> last'.resolved, kg_assigned |-> kg]
                /\ orders'[o].status = "scheduled"]_vars

\* A request dated yesterday has just been rejected while an assignment made
\* for today's date stands.
C7_Witness ==
    /\ last.op = "assign" /\ last.result = "past_date_input"
    /\ last.slot_date = DateKey(today - 1)
    /\ \E r \in DOMAIN order_slots :
          production_slots[order_slots[r].slot_id].slot_date = todayKey

\* C8: the kg assigned in a slot never exceeds the slot's capacity_kg.
C8_SlotWithinCapacity ==
    \A s \in DOMAIN production_slots :
        SumKg(order_slots, slotAssignmentsOf(order_slots, s)) <= production_slots[s].capacity_kg

\* C9: after an accepted order edit, the kg assigned to every order is still
\* at most the order's (new) total_weight_kg.
C9_EditKeepsAssignedWithinWeight ==
    (last.op = "upsertOrder" /\ last.result = "ok")
        => \A o \in DOMAIN orders : AssignedKg(o) <= orders[o].total_weight_kg

\* C3: the write of a request that read its slot as unoccupied, and its
\* order as unassigned, is not held back by what the slot holds by then: it
\* inserts the request's row and leaves every other row in place, so that a
\* slot another order has taken in between now holds both.
C3_RaceFillsSlotTwice ==
    [][\A p \in Procs :
          (pc[p] = "write" /\ pc'[p] = "status"
              /\ req[p].slotRows = <<>> /\ req[p].existing = None)
          => /\ \A r \in DOMAIN order_slots :
                   r \in DOMAIN order_slots' /\ order_slots'[r] = order_slots[r]
             /\ \E r \in DOMAIN order_slots' \ DOMAIN order_slots :
                   order_slots'[r] = [order_id |-> req[p].order_id,
                                      slot_id |-> req[p].resolved,
                                      kg_assigned |-> req[p].kg_assigned]]_vars

\* Two interleaved requests for different orders have both written, and one
\* slot holds an assignment of each.
C3_Witness ==
    \E p, q \in Procs, r1, r2 \in DOMAIN order_slots :
        /\ pc[p] = "status" /\ pc[q] = "status"
        /\ req[p].order_id /= req[q].order_id
        /\ order_slots[r1].order_id = req[p].order_id
        /\ order_slots[r2].order_id = req[q].order_id
        /\ order_slots[r1].slot_id = order_slots[r2].slot_id

\* C11: after an accepted assign the order's status is "scheduled" and an
\* order_slots row binds the order to the resolved slot with the kg given;
\* after the delete of an existing assignment its row is gone, the owning
\* order's status is "unassigned", and no other order, assignment or slot
\* row has changed.
C11_StatusFollowsScheduling ==
    [][/\ (last'.op = "assign" /\ last'.result = "ok")
            => /\ orders'[last'.order_id].status = "scheduled"
               /\ \E r \in DOMAIN order_slots' :
                     order_slots'[r] = [order_id |-> last'.order_id,
                                        slot_id |-> last'.resolved,
                                        kg_assigned |-> last'.kg_assigned]
       /\ \A r \in DOMAIN order_slots :
            (last'.op = "delete" /\ last'.assignment_id = r /\ deleteAssignment(r))
            => /\ order_slots' = Remove(order_slots, r)
               /\ orders'[order_slots[r].order_id].status = "unassigned"
               /\ \A o \in DOMAIN orders \ {order_slots[r].order_id} : orders'[o] = orders[o]
               /\ DOMAIN orders' = DOMAIN orders
               /\ orders'[order_slots[r].order_id].total_weight_kg
                     = orders[order_slots[r].order_id].total_weight_kg
               /\ production_slots' = production_slots]_vars

\* No two production_slots rows share (slot_date, slot_index).
UniqueSlots(slots) ==
    \A s1, s2 \in DOMAIN slots :
        (slots[s1].slot_date = slots[s2].slot_date
            /\ slots[s1].slot_index = slots[s2].slot_index) => s1 = s2

\* C12: an assign request by (slot_date, slot_index) that passes validation
\* reuses the production_slots row of that pair when there is one, and
\* otherwise creates exactly one row, with capacity_kg = max_total_kg and
\* status "open"; no assign step creates or changes a slot row otherwise, and
\* no two slot rows ever share (slot_date, slot_index).
C12_SlotsLazyAndUnique ==
    [][last'.op = "assign" =>
       LET o == last'.order_id
           slot_date == last'.slot_date
           new == DOMAIN production_slots' \ DOMAIN production_slots
       IN /\ \A s \in DOMAIN production_slots :
                s \in DOMAIN production_slots' /\ production_slots'[s] = production_slots[s]
          /\ Cardinality(new) <= 1
          /\ UniqueSlots(production_slots')
          /\ \A slot_index \in SlotIndexInputs, kg \in KgInputs :
               ( /\ WellFormed(o, None, slot_date, slot_index, kg)
                 /\ ~StrLess(slot_date, todayKey)
                 /\ AssignStep(o, None, slot_date, slot_index, kg) )
               => LET matches == existingSlot(production_slots, slot_date, slot_index)
                  IN IF matches /= {}
                     THEN new = {} /\ last'.resolved \in matches
                     ELSE /\ new = {last'.resolved}
                          /\ production_slots'[last'.resolved] =
                                [slot_date |-> slot_date, slot_index |-> slot_index,
                                 capacity_kg |-> MaxTotalKg, status |-> "open"]]_vars

\* An order assigned by date and index has just been assigned again to the
\* same date and index, and that pair still has a single slot row.
C12_Witness ==
    /\ last.op = "assign" /\ last.result = "ok"
    /\ last.slot_id = None /\ last.slot_date /= NoDate
    /\ last.prior_slot = last.resolved
    /\ Cardinality(existingSlot(production_slots, last.slot_date, 1)) = 1

\* C13: no date d has both an "Open override" row and a "Manual block" row
\* with range [d, d] in production_blocks.
C13_OverrideAndBlockExclusive ==
    \A d \in DateKeys :
        ~ \E b1, b2 \in exactBlocks(production_blocks, d) :
              /\ production_blocks[b1].reason = OPEN_OVERRIDE_REASON
              /\ production_blocks[b2].reason = MANUAL_BLOCK_REASON

\* The rows of production_blocks whose range covers the date key.
Covering(key) == {b \in DOMAIN production_blocks : inRange(production_blocks[b], key)}

C15_RefundAfterProvider ==
    [][/\ \A o \in DOMAIN orders :
            orders'[o] /= orders[o]
            => /\ refund.id = o
               /\ refund.provider = "returned"
               /\ refund.order.payment_provider \in {"square", "paypal"}
               /\ refund.order.payment_transaction_id \in provider_refunds
               /\ orders'[o] = [orders[o] EXCEPT !.status = "refunded",
                                                 !.refunded_at = todayKey]
       /\ (refund'.pc = "done" /\ refund'.provider /= "returned"
                /\ refund'.id \in DOMAIN orders)
            => /\ ~refund'.updated
               /\ orders'[refund'.id] = refund'.order]_vars

\* A refund has failed at the provider after the sibling order was refunded.
C15_Witness ==
    /\ last.op = "refund" /\ last.result = "provider_failed"
    /\ refund.pc = "done" /\ refund.provider = "threw"
    /\ orders[refund.id].status /= "refunded"
    /\ \E o \in DOMAIN orders : orders[o].status = "refunded"

\* C16: when the e-mail of a refund fails to send, the failure is swallowed
\* and the request still reports success to its caller.
C16_EmailFailureSwallowed ==
    (refund.pc = "done" /\ refund.email = "failed")
        => last.result \in {"ok", "toast_success"}

\* C20: the update of a refund changes the status and refunded_at of the
\* refunded order only; every other row, the sibling sharing the base order
\* number included, stays as it was.
C20_RefundDoesNotCascade ==
    [][refund.pc = "update" /\ refund'.pc /= "update"
       => /\ orders'[refund.id].status = "refunded"
          /\ orders'[refund.id].refunded_at = todayKey
          /\ \A o \in DOMAIN orders \ {refund.id} :
                /\ orders'[o] = orders[o]
                /\ orders[o].order_number.base = orders[refund.id].order_number.base
                     => /\ orders'[o].status = orders[o].status
                        /\ orders'[o].refunded_at = orders[o].refunded_at
                        /\ orders'[o].payment_provider = orders[o].payment_provider
                        /\ orders'[o].payment_transaction_id
                              = orders[o].payment_transaction_id]_vars

\* One order of a combined cart has been refunded and its sibling, with the
\* same base order number, has not.
C20_Witness ==
    \E o1, o2 \in DOMAIN orders :
        /\ o1 /= o2
        /\ orders[o1].order_number.base = orders[o2].order_number.base
        /\ orders[o1].status = "refunded" /\ orders[o1].refunded_at /= NoDate
        /\ orders[o2].status = "pending" /\ orders[o2].refunded_at = NoDate
        /\ refund.pc = "done" /\ refund.id = o1 /\ refund.updated

\* A step that sent an insert of an order to the store: a pass of the
\* retry loop, or a checkout route run to its insert.
InsertAttempted ==
    \/ placing.pc = "insert" /\ placing'.inserts = placing.inserts + 1
    \/ placing.pc \in {"idle", "done"} /\ placing'.inserts = 1

\* C17: creating an order makes at most MaxAttempts insert attempts; an
\* attempt that fails on the uniqueness of order_number is followed by
\* another under a fresh number; any other insert error ends the request at
\* once; when the last attempt conflicts too the request ends with a
\* terminal error and the orders table is as it was.
C17_ConflictRetryBounded ==
    [][InsertAttempted
          => LET error == placing'.insertError
             IN /\ placing'.inserts <= MaxAttempts
                /\ (error = UniqueViolation /\ placing'.inserts < MaxAttempts)
                      => /\ placing'.pc = "insert"
                         /\ order_seq' = order_seq + 1
                         /\ placing'.payload.order_number.base = order_seq'
                /\ error \notin {NoError, UniqueViolation}
                      => placing'.pc = "done" /\ placing'.result = "insert_error"
                /\ (error = UniqueViolation /\ placing'.inserts = MaxAttempts)
                      => /\ placing'.pc = "done"
                         /\ placing'.result = "conflict_exhausted"
                         /\ orders' = orders]_vars

\* C18: a row stored by a customer-facing path (public placement, Woo
\* checkout order, Square payment, PayPal capture, Woo paid order) has no
\* due_date inside a quote_blocks range; production_blocks plays no part.
C18_QuoteBlocksEnforced ==
    [][\A o \in DOMAIN orders' \ DOMAIN orders :
          \/ orders'[o].due_date = NoDate
          \/ ~isDateBlocked(orders'[o].due_date, quote_blocks)]_vars

\* Bad or missing input of a creation request: the weight of a form, the
\* premade weight of an admin form, the category, packaging and quantity
\* of a custom item.
BadInput(via, input) ==
    \/ via \in {"admin", "public"} /\ (input.kg <= 0 \/ input.kg > MaxTotalKg)
    \/ /\ via = "admin" /\ input.premade.selected
       /\ input.premade.found
       /\ (input.premade.kg <= 0 \/ input.premade.kg > MaxTotalKg)
    \/ /\ via \in {"admin", "public"} \/ hasCustom(input)
       /\ \/ input.category_id = None
          \/ input.packaging_option_id = None
          \/ input.quantity /= NoNumber /\ input.quantity > MaxPackages

\* C19: a creation request with bad or missing input is rejected and no
\* step of it writes the orders table.
C19_BadInputRejectedBeforeWrite ==
    [][(placing'.pc /= "idle" /\ BadInput(placing'.via, placing'.input))
          => /\ orders' = orders
             /\ placing'.pc = "done" => placing'.result /= "ok"]_vars

\* C21: every order whose status is 'shipped' has design_type 'premade'.
C21_ShippedOnlyPremade ==
    \A o \in DOMAIN orders : orders[o].status = "shipped" => orders[o].design_type = "premade"

\* The value the rule gives when the order's assignment is row r.
ruleStatus(page, order_id, r) ==
    LET os == page.tables[1]
        slots == page.tables[2]
        rows == page.tables[3]
    IN IF os[order_id].status = "archived" THEN "archived"
       ELSE IF r = None THEN "unassigned"
       ELSE IF /\ rows[r].slot_id \in DOMAIN slots
               /\ slots[rows[r].slot_id].slot_date /= NoDate
               /\ StrLess(slots[rows[r].slot_id].slot_date, DateKey(page.today))
       THEN "pending completion"
       ELSE "scheduled"

\* Each page shows, for every order, what the rule gives for an assignment
\* of that order.
FollowsRule(page) ==
    page.rendered =>
        \A order_id \in DOMAIN page.status :
            \E r \in FirstOf(orderAssignmentsOf(page.tables[3], order_id)) :
                page.status[order_id] = ruleStatus(page, order_id, r)

PagesFollowRule == FollowsRule(shown.schedule) /\ FollowsRule(shown.all)

\* C22: the schedule table and the All Orders page, rendered from the same
\* tables on the same day, show for every order the status the rule gives
\* ('archived', else 'unassigned', else 'pending completion' for a slot date
\* before today, else 'scheduled'), and so the same status.
C22_PagesShowSameStatus ==
    /\ PagesFollowRule
    /\ (/\ shown.schedule.rendered
        /\ shown.all.rendered
        /\ shown.schedule.tables = shown.all.tables
        /\ shown.schedule.today = shown.all.today)
           => shown.schedule.status = shown.all.status

\* C23: whoever prices a custom item - the admin page, the checkout page, a
\* checkout route - prices a jacket of 'two_colour_pinstripe' as the extras
\* two_colour and pinstripe, once each, 'two_colour', 'pinstripe' and
\* 'rainbow' as that one extra and anything else as none, and extrasPrice is
\* the sum of their surcharges.
ExtrasOfJacket(jacket) ==
    IF jacket = "two_colour_pinstripe" THEN <<"two_colour", "pinstripe">>
    ELSE IF jacket \in Extras THEN <<jacket>>
    ELSE <<>>

C23_JacketDecidesExtras ==
    priced.by /= "none" =>
        /\ priced.extras = ExtrasOfJacket(priced.jacket)
        /\ priced.pricing.extrasPrice =
              extrasPriceOf(priced.settings, ExtrasOfJacket(priced.jacket))

\* C24: a custom item priced with a due date carries an urgency fee of
\* urgency_fee percent of base + packaging + labels + extras when the due
\* date is at most the urgency window of calendar days after today, and none
\* otherwise; its total is the sum of the six parts.  30.00 with a window of
\* 3 days and 10 percent is charged 3.00 for tomorrow and nothing for a date
\* 10 days out.
C24_UrgencyFeeAndTotal ==
    (priced.by /= "none" /\ priced.dueDate /= NoNumber) =>
        LET p == priced.pricing
            s == priced.settings
            subtotal == p.basePrice + p.packagingPrice + p.labelsPrice + p.extrasPrice
            daysLeft == priced.dueDate - priced.today
        IN /\ p.urgencyFee = IF daysLeft <= s.urgency_period_days
                             THEN (subtotal * s.urgency_fee) \div 100
                             ELSE 0
           /\ p.total = subtotal + p.urgencyFee + p.transactionFee
           /\ (subtotal = 3000 /\ s.urgency_period_days = 3 /\ s.urgency_fee = 10) =>
                 /\ daysLeft = 1 => p.urgencyFee = 300
                 /\ daysLeft = 10 => p.urgencyFee = 0

\* A checkout route has priced a 30.00 item due tomorrow with a 3.00 fee.
C24_Witness ==
    /\ priced.by = "checkout_route"
    /\ priced.dueDate = priced.today + 1
    /\ priced.settings.urgency_period_days = 3
    /\ priced.pricing.basePrice + priced.pricing.packagingPrice + priced.pricing.extrasPrice = 3000
    /\ priced.pricing.urgencyFee = 300
    /\ priced.pricing.total = 3300

\* C25: a request that names the order's own, only row as assignment_id and
\* moves it to a different free slot, with kg within the order's weight, is
\* accepted (the kg of the row being replaced are not counted against the
\* order), and the row then holds the new slot and kg.
C25_UpdateDiscountsOwnRow ==
    [][last'.op = "assign" =>
       LET o == last'.order_id
           slot_date == last'.slot_date
       IN \A r \in DOMAIN order_slots,
             slot_id \in {None} \cup DOMAIN production_slots,
             slot_index \in SlotIndexInputs, kg \in KgInputs :
          ( /\ WellFormed(o, slot_id, slot_date, slot_index, kg)
            /\ OnlyRow(o, r)
            /\ TargetFree(slot_id, slot_date, slot_index, order_slots[r].slot_id)
            /\ kg <= orders[o].total_weight_kg
            /\ assignOrderToSlot(r, o, slot_id, slot_date, slot_index, kg) )
          => /\ last'.result = "ok"
             /\ order_slots'[r] =
                   [order_id |-> o, slot_id |-> last'.resolved, kg_assigned |-> kg]]_vars

\* C26: when the Square or PayPal route has answered ok, orders holds, for
\* every item of the cart, a row under the number generated for the request
\* that names the provider and the transaction.
C26_PaidOrderRecorded ==
    (placing.pc = "done" /\ placing.result = "ok" /\ placing.via \in {"square", "paypal"}) =>
        LET recorded(premade) ==
                \E o \in DOMAIN orders :
                    /\ orders[o].order_number.base = order_seq
                    /\ (orders[o].design_type = "premade") = premade
                    /\ orders[o].payment_provider = placing.via
                    /\ orders[o].payment_transaction_id = "t1"
        IN /\ hasCustom(placing.input) => recorded(FALSE)
           /\ placing.input.premade.selected => recorded(TRUE)

\* C27: a refund request for an order whose refunded_at is already set
\* makes no call to the payment provider.
C27_RefundedOnce ==
    [][(refund.pc = "provider" /\ refund'.provider /= "uncalled")
           => refund.order.refunded_at = NoDate]_vars

\* C28: a signed webhook delivery with status 'processing' or 'completed'
\* leaves status and paid_at of the rows that already have paid_at as they
\* were, and a delivery repeated at once leaves the table as it was.
C28_WebhookKeepsPaidOrders ==
    [][last'.op = "webhook" =>
          /\ (last'.result = "ok" /\ last'.resolved \in {"processing", "completed"}) =>
                \A o \in DOMAIN orders :
                    (orders[o].woo_order_id = last'.order_id /\ orders[o].paid_at /= NoDate)
                        => /\ orders'[o].status = orders[o].status
                           /\ orders'[o].paid_at = orders[o].paid_at
          /\ last' = last => orders' = orders]_vars

\* C29: the total the checkout page shows, cartPricing.total, equals the
\* totalAmount buildWooOrderContext computes and the payment route charges,
\* for every cart and every transaction-fee percentage.
C29_ChargedEqualsShown ==
    checkout_cart.page = "paid" => checkout_cart.payment.shown = 100 * checkout_cart.payment.totalAmount

\* C30: for max >= 1, within one window of a key (from its first accepted
\* call at t until now > t + windowMs) at most max calls are accepted; a
\* rejected call leaves count and resetAt as they were, and a call leaves the
\* buckets of the other keys as they were.
C30_FixedWindowPerKey ==
    /\ [](\A key \in DOMAIN limits.accepted :
              limits.accepted[key].calls <= limits.options.max)
    /\ [][limits'.call /= limits.call \/ buckets' /= buckets =>
              /\ ~limits'.call.ok => buckets' = buckets
              /\ \A key \in DOMAIN buckets :
                     key /= limits'.call.key => buckets'[key] = buckets[key]]_vars

\* A key that used up its window was rejected while the other key has a
\* bucket of its own with room left.
C30_Witness ==
    /\ ~limits.call.ok
    /\ limits.options.max > 1
    /\ buckets[limits.call.key].count = limits.options.max
    /\ \E key \in DOMAIN buckets : key /= limits.call.key /\ buckets[key].count < limits.options.max

====
